---- MODULE Spec2Model ----
(***************************************************************************)
(* domains-mcp: the provider-query engine.                                 *)
(*                                                                         *)
(* Three provider drivers (iwantmyname, porkbun, nicchile), each with a    *)
(* single and a bulk operation, and the tool handlers of src/index.ts that *)
(* call them and post-filter their outcomes.  Every await of the code is a *)
(* point where the model may interleave: a driver call is a small state    *)
(* machine whose steps are the completions of its network requests and of  *)
(* its timers.  The upstream servers are the environment: each completion  *)
(* draws the response from a bounded set.                                  *)
(*                                                                         *)
(* Strings that the code trims, lower-cases or tests for a suffix are      *)
(* sequences of one-character strings, so those conversions are computed.  *)
(* Decimal amounts are integers counting hundredths (19.99 is 1999).       *)
(***************************************************************************)
EXTENDS Integers, Sequences, FiniteSets, TLC

VARIABLES
    hpc,          \* the tool handler: "idle", "awaiting", "responded", "failed"
    req,          \* the arguments of the tool call being served
    settleOrder,  \* history: providers in the order their promises settled
    response,     \* the provider outcomes handed to the formatter
    pb,           \* the running searchPorkbun / searchPorkbunBulk call
    iw,           \* the running doSearch call (searchIwantmyname[Bulk])
    nic,          \* the running searchNicChile / searchNicChileBulk call
    peer          \* a second tool call served at the same time: its handler
                  \* and its Provider A and Provider B driver calls

vars == <<hpc, req, settleOrder, response, pb, iw, nic, peer>>

----------------------------------------------------------------------------
(* Bounds of the model *)

\* longest result list of one Provider A status-check response
MaxPollItems == 2
\* longest data list of a Provider B prepare response: of generated domains,
\* and of items of every shape
MaxPrepare == 61
MaxPrepareShort == 2
\* longest domain list of a bulk tool call
MaxBulk == 3

----------------------------------------------------------------------------
(* JavaScript values *)

\* null, for a nullable string (error, a WHOIS field)
Null == "<null>"
\* an optional property that is missing (undefined)
Absent == "<undefined>"

Last(s) == s[Len(s)]

Range(s) == {s[i] : i \in 1..Len(s)}

SeqsUpTo(S, n) == UNION {[1..k -> S] : k \in 0..n}

\* the lists of up to n elements of S that name none of them twice
ListsUpTo(S, n) ==
    {s \in SeqsUpTo(S, n) : \A i, j \in 1..Len(s) : s[i] = s[j] => i = j}

----------------------------------------------------------------------------
(* Strings as character sequences *)

UpperChars == <<"A","B","C","D","E","F","G","H","I","J","K","L","M",
                "N","O","P","Q","R","S","T","U","V","W","X","Y","Z">>
LowerChars == <<"a","b","c","d","e","f","g","h","i","j","k","l","m",
                "n","o","p","q","r","s","t","u","v","w","x","y","z">>

\* a lone UTF-16 surrogate: legal in a JavaScript string, refused by
\* encodeURIComponent
Surrogate == "\\uD800"

toLowerChar(c) ==
    IF \E i \in 1..26 : UpperChars[i] = c
    THEN LowerChars[CHOOSE i \in 1..26 : UpperChars[i] = c]
    ELSE c

\* String.prototype.toLowerCase
toLowerCase(s) == [i \in 1..Len(s) |-> toLowerChar(s[i])]

RECURSIVE trimStart(_)
trimStart(s) == IF s # <<>> /\ Head(s) = " " THEN trimStart(Tail(s)) ELSE s

RECURSIVE trimEnd(_)
trimEnd(s) ==
    IF s # <<>> /\ Last(s) = " " THEN trimEnd(SubSeq(s, 1, Len(s) - 1)) ELSE s

\* String.prototype.trim
trim(s) == trimEnd(trimStart(s))

\* String.prototype.endsWith
endsWith(s, suffix) ==
    /\ Len(s) >= Len(suffix)
    /\ SubSeq(s, Len(s) - Len(suffix) + 1, Len(s)) = suffix

\* encodeURIComponent throws URIError on a lone surrogate
encodeThrows(s) == \E i \in 1..Len(s) : s[i] = Surrogate

DotCl == <<".", "c", "l">>

ExampleAi == <<"e","x","a","m","p","l","e",".","a","i">>
ExampleAiMixed == <<"E","x","a","m","p","l","e",".","A","I">>
ExampleAiPadded == <<" ">> \o ExampleAiMixed \o <<" ">>
SubExampleAi == <<"s","u","b",".">> \o ExampleAi
FooCl == <<"f","o","o",".","c","l">>
FooBare == <<"F","o","o">>
BadName == <<"x", Surrogate>>

\* the queries and domain names a caller passes
Queries == {ExampleAi, ExampleAiPadded, FooCl, FooBare, BadName}

Digit == <<"0","1","2","3","4","5","6","7","8","9">>

\* the i-th generated domain name: d07.io
GenDomain(i) ==
    <<"d", Digit[(i \div 10) + 1], Digit[(i % 10) + 1], ".", "i", "o">>

----------------------------------------------------------------------------
(* Result model: src/providers/types.ts *)

Providers == <<"iwantmyname", "porkbun", "nicchile">>

\* a JavaScript number: a finite value in hundredths, or NaN
Num(v) == [nan |-> FALSE, v |-> v]
NaN == [nan |-> TRUE, v |-> 0]

NoPrice == [null |-> TRUE]
Price(reg, renew) ==
    [null |-> FALSE, registration |-> reg, renewal |-> renew, currency |-> "USD"]

\* DomainResult.whois: the property missing, null, or a WhoisData
WhoisUndefined == [kind |-> "undefined"]
WhoisNull == [kind |-> "null"]

DomainResult(domain, available, premium, price, provider, status, whois) ==
    [domain |-> domain, available |-> available, premium |-> premium,
     price |-> price, provider |-> provider, status |-> status, whois |-> whois]

ProviderSearchResult(provider, results, error) ==
    [provider |-> provider, results |-> results, error |-> error]

\* the message of a caught exception: err.message
ErrorMessage(err) == err

----------------------------------------------------------------------------
(* Post-filters: src/index.ts *)

\* variant: the kept results are rewritten with their domain lower-cased
FilterResultsLowered(results, targets) ==
    LET kept(d) == toLowerCase(d.domain) \in targets
        sel == SelectSeq(results, kept)
    IN [k \in 1..Len(sel) |-> [sel[k] EXCEPT !.domain = toLowerCase(@)]]

RECURSIVE FilterResults(_, _)
\* r.results.filter(d => targets.has(d.domain.toLowerCase()))
FilterResults(results, targets) ==
    IF results = <<>> THEN <<>>
    ELSE (IF toLowerCase(Head(results).domain) \in targets
          THEN <<Head(results)>> ELSE <<>>)
         \o FilterResults(Tail(results), targets)

\* variant: the query is lower-cased without being trimmed
filterExactUntrimmed(results, query) ==
    [i \in 1..Len(results) |->
        [results[i] EXCEPT !.results = FilterResults(@, {toLowerCase(query)})]]

filterExact(results, query) ==
    LET target == toLowerCase(trim(query)) IN
    [i \in 1..Len(results) |->
        [results[i] EXCEPT !.results = FilterResults(@, {target})]]

\* variant: only the first requested domain is a target
filterDomainsFirst(results, domains) ==
    LET targets == {toLowerCase(trim(domains[k])) : k \in 1..Len(domains) \cap {1}} IN
    [i \in 1..Len(results) |->
        [results[i] EXCEPT !.results = FilterResults(@, targets)]]

filterDomains(results, domains) ==
    LET targets == {toLowerCase(trim(domains[k])) : k \in 1..Len(domains)} IN
    [i \in 1..Len(results) |->
        [results[i] EXCEPT !.results = FilterResults(@, targets)]]

----------------------------------------------------------------------------
(* What a fetch can do.  A request either throws (network failure, timeout  *)
(* of AbortSignal.timeout, or a body read that fails), or answers with a    *)
(* status and a body.                                                       *)

NetworkError == "fetch failed"
TimeoutError == "The operation was aborted due to timeout"
URIError == "URI malformed"
SyntaxError == "Unexpected token < in JSON"

FetchThrows == {NetworkError, TimeoutError}

\* a non-success HTTP status (resp.ok false)
BadStatuses == {500}

HttpError(status, from) == "HTTP " \o ToString(status) \o " from " \o from

\* The failure taxonomy: the class of a failed request (a non-success status
\* and a network failure are the two transport errors), with the stage of the
\* driver operation it happened in
FailureOf(up, stage) ==
    IF up.kind = "throw" /\ up.err = TimeoutError THEN {<<"timeout", stage>>}
    ELSE IF up.kind = "throw" /\ up.err = NetworkError THEN {<<"network", stage>>}
    ELSE IF up.kind = "status" THEN {<<"status", stage>>}
    ELSE IF up.kind = "badbody" THEN {<<"parse", stage>>}
    ELSE {}

\* a driver call that returned: its promise is fulfilled with the outcome
Done(call, outcome) == [call EXCEPT !.pc = "done", !.outcome = outcome]

\* a driver call out of which an exception escaped: its promise is rejected
Rejected(call, err) ==
    [call EXCEPT !.pc = "rejected",
                 !.outcome = ProviderSearchResult(call.outcome.provider, <<>>, err)]

Settled(call) == call.pc \in {"done", "rejected"}

\* a combined tool runs the three drivers at once: the upstream responses are
\* then drawn from the smaller sets
Combined == req.tool \in {"search_domains", "bulk_search_domains"}

\* two tool calls are served at once: the upstream responses are then drawn
\* from sets that hold two different sessions and little else
Concurrent == peer.hpc # "idle"

----------------------------------------------------------------------------
(* Provider C: src/providers/nicchile.ts *)

\* in hundredths of a USD: 11.5
PRICE_USD == Price(Num(1150), Num(1150))

MarkNotExist == "Nombre de dominio no existe."
MarkPendingDeletion == "Este dominio esta en proceso de eliminacion."

\* variant: the query is trimmed and lower-cased, and no suffix is appended
normalizeDomainAsTyped(query) == toLowerCase(trim(query))

normalizeDomain(query) ==
    LET q == toLowerCase(trim(query)) IN
    IF endsWith(q, DotCl) THEN q ELSE q \o DotCl

\* A WHOIS page body: the marker phrases it contains, and its .tablabusqueda
\* table if it has one (rows of label and value, and the "Sitio web:" link).
NoTable == [present |-> FALSE]
WhoisTable(rows, website) == [present |-> TRUE, rows |-> rows, website |-> website]
Html(phrases, table) == [phrases |-> phrases, table |-> table]

\* String.prototype.includes, on a page body
includes(html, phrase) == phrase \in html.phrases

LABEL_MAP ==
    [label \in {"Titular", "Organizacion", "Agente Registrador",
                "Fecha de creacion", "Fecha de ultima modificacion",
                "Fecha de expiracion", "Servidor de Nombre"} |->
        CASE label = "Titular" -> "registrant"
          [] label = "Organizacion" -> "organization"
          [] label = "Agente Registrador" -> "registrar"
          [] label = "Fecha de creacion" -> "creationDate"
          [] label = "Fecha de ultima modificacion" -> "lastModified"
          [] label = "Fecha de expiracion" -> "expirationDate"
          [] label = "Servidor de Nombre" -> "nameservers"]

EmptyWhois ==
    [kind |-> "data", registrant |-> Null, organization |-> Null,
     registrar |-> Null, creationDate |-> Null, lastModified |-> Null,
     expirationDate |-> Null, nameservers |-> <<>>, website |-> Null]

RECURSIVE WhoisRows(_, _)
\* the loop over the table's rows
WhoisRows(whois, rows) ==
    IF rows = <<>> THEN whois
    ELSE LET row == Head(rows)
             next ==
                 IF row.label \notin DOMAIN LABEL_MAP \/ row.value = ""
                 THEN whois
                 ELSE IF LABEL_MAP[row.label] = "nameservers"
                      THEN [whois EXCEPT !.nameservers = Append(@, row.value)]
                      ELSE [whois EXCEPT ![LABEL_MAP[row.label]] = row.value]
         IN WhoisRows(next, Tail(rows))

parseWhois(html) ==
    IF ~html.table.present THEN EmptyWhois
    ELSE LET whois == WhoisRows(EmptyWhois, html.table.rows) IN
         IF html.table.website = Absent THEN whois
         ELSE [whois EXCEPT !.website = html.table.website]

\* variant: the WHOIS table is parsed for an available domain too
parseDomainResultAnyWhois(domain, html, whoisRequested) ==
    LET available == includes(html, MarkNotExist)
        pendingDeletion == includes(html, MarkPendingDeletion)
    IN DomainResult(
           domain, available, FALSE,
           IF available THEN PRICE_USD ELSE NoPrice,
           "nicchile",
           IF pendingDeletion THEN "pending_deletion" ELSE Absent,
           IF ~pendingDeletion /\ whoisRequested
           THEN parseWhois(html)
           ELSE IF ~available THEN WhoisNull ELSE WhoisUndefined)

\* variant: the price is attached whether the domain is available or not
parseDomainResultPriced(domain, html, whoisRequested) ==
    LET available == includes(html, MarkNotExist)
        pendingDeletion == includes(html, MarkPendingDeletion)
    IN DomainResult(
           domain, available, FALSE, PRICE_USD, "nicchile",
           IF pendingDeletion THEN "pending_deletion" ELSE Absent,
           IF ~available /\ ~pendingDeletion /\ whoisRequested
           THEN parseWhois(html)
           ELSE IF ~available THEN WhoisNull ELSE WhoisUndefined)

\* variant: the WHOIS table is parsed whether or not the caller asked for it
parseDomainResultUnasked(domain, html, whoisRequested) ==
    LET available == includes(html, MarkNotExist)
        pendingDeletion == includes(html, MarkPendingDeletion)
    IN DomainResult(
           domain, available, FALSE,
           IF available THEN PRICE_USD ELSE NoPrice,
           "nicchile",
           IF pendingDeletion THEN "pending_deletion" ELSE Absent,
           IF ~available /\ ~pendingDeletion
           THEN parseWhois(html)
           ELSE IF ~available THEN WhoisNull ELSE WhoisUndefined)

parseDomainResult(domain, html, whoisRequested) ==
    LET available == includes(html, MarkNotExist)
        pendingDeletion == includes(html, MarkPendingDeletion)
    IN DomainResult(
           domain, available, FALSE,
           IF available THEN PRICE_USD ELSE NoPrice,
           "nicchile",
           IF pendingDeletion THEN "pending_deletion" ELSE Absent,
           IF ~available /\ ~pendingDeletion /\ whoisRequested
           THEN parseWhois(html)
           ELSE IF ~available THEN WhoisNull ELSE WhoisUndefined)

\* the record pushed for a domain whose request failed
NicFallback(domain) ==
    DomainResult(domain, FALSE, FALSE, NoPrice, "nicchile", Absent, WhoisUndefined)

\* the responses of the WHOIS page
HtmlAvailable == Html({MarkNotExist}, NoTable)
HtmlPending ==
    Html({MarkPendingDeletion},
         WhoisTable(<< [label |-> "Titular", value |-> "ACME"] >>, Absent))
HtmlBoth == Html({MarkNotExist, MarkPendingDeletion}, NoTable)
HtmlAvailableTable ==
    Html({MarkNotExist},
         WhoisTable(<< [label |-> "Titular", value |-> "NIC Chile"] >>, Absent))
HtmlTaken ==
    Html({}, WhoisTable(<<[label |-> "Titular", value |-> "ACME"],
                          [label |-> "Servidor de Nombre", value |-> "ns1.acme.cl"],
                          [label |-> "Servidor de Nombre", value |-> "ns2.acme.cl"],
                          [label |-> "Otro", value |-> "x"],
                          [label |-> "Organizacion", value |-> ""]>>,
                        "www.acme.cl"))
HtmlBare == Html({}, NoTable)

NicUp(kind, err, status, html) ==
    [kind |-> kind, err |-> err, status |-> status, html |-> html]

NicResponses ==
    {NicUp("status", Null, 500, HtmlBare),
     NicUp("ok", Null, 200, HtmlAvailable),
     NicUp("ok", Null, 200, HtmlTaken)}
    \cup (IF Combined THEN {}
          ELSE {NicUp("throw", NetworkError, 0, HtmlBare),
                NicUp("throw", TimeoutError, 0, HtmlBare),
                NicUp("ok", Null, 200, HtmlPending),
                NicUp("ok", Null, 200, HtmlBoth),
                NicUp("ok", Null, 200, HtmlAvailableTable),
                NicUp("ok", Null, 200, HtmlBare)})

NicOff ==
    [pc |-> "off", bulk |-> FALSE, query |-> <<>>, domains |-> <<>>,
     whois |-> FALSE, i |-> 0, results |-> <<>>, issued |-> 0, delays |-> 0,
     inflight |-> 0, kinds |-> <<>>, pages |-> <<>>, failures |-> {},
     outcome |-> ProviderSearchResult("nicchile", <<>>, Null)]

\* the catch block of searchNicChile
searchNicChile_catch(call, err) ==
    Done(call, ProviderSearchResult("nicchile", <<>>, ErrorMessage(err)))

\* searchNicChile up to its first await
searchNicChile(query, whois) ==
    LET call == [NicOff EXCEPT !.query = query, !.whois = whois]
        domain == normalizeDomain(query)
    IN IF encodeThrows(domain)
       THEN searchNicChile_catch(call, URIError)
       ELSE [call EXCEPT !.pc = "single", !.issued = 1, !.inflight = 1]

\* searchNicChile from the completion of its request
NicSingleDone ==
    /\ nic.pc = "single"
    /\ \E up \in NicResponses :
         LET call == [nic EXCEPT !.inflight = 0,
                                 !.kinds = Append(@, up.kind),
                                 !.pages = Append(@, up.html),
                                 !.failures = @ \cup FailureOf(up, "lookup")]
             domain == normalizeDomain(nic.query)
         IN nic' =
              IF up.kind = "throw" THEN searchNicChile_catch(call, up.err)
              ELSE IF up.kind = "status" THEN
                     Done(call, ProviderSearchResult(
                                    "nicchile", <<>>,
                                    HttpError(up.status, "NIC Chile")))
              ELSE
                     Done(call, ProviderSearchResult(
                                    "nicchile",
                                    <<parseDomainResult(domain, up.html, nic.whois)>>,
                                    Null))
    /\ settleOrder' = Append(settleOrder, "nicchile")
    /\ UNCHANGED <<hpc, req, response, pb, iw, peer>>

\* variant: the results are returned newest first
NicAfterPushNewestFirst(call) ==
    IF call.i < Len(call.domains) - 1
    THEN [call EXCEPT !.pc = "delaying", !.delays = @ + 1]
    ELSE Done(call, ProviderSearchResult(
                        "nicchile",
                        [k \in 1..Len(call.results) |->
                            call.results[Len(call.results) + 1 - k]],
                        Null))

\* the end of one iteration of the bulk loop, after results.push
NicAfterPush(call) ==
    IF call.i < Len(call.domains) - 1
    THEN [call EXCEPT !.pc = "delaying", !.delays = @ + 1]
    ELSE Done(call, ProviderSearchResult("nicchile", call.results, Null))

\* variant: after a failed request the loop goes on without the delay
searchNicChileBulk_catchNoDelay(call, domain) ==
    LET pushed == [call EXCEPT !.results = Append(@, NicFallback(domain))] IN
    IF pushed.i < Len(pushed.domains) - 1
    THEN [pushed EXCEPT !.i = @ + 1, !.pc = "fetching", !.issued = @ + 1,
                        !.inflight = @ + 1]
    ELSE Done(pushed, ProviderSearchResult("nicchile", pushed.results, Null))

\* variant: a failed request ends the call with an error
searchNicChileBulk_catchAbort(call, domain) ==
    Done(call, ProviderSearchResult("nicchile", <<>>, NetworkError))

\* the catch block inside the bulk loop
searchNicChileBulk_catch(call, domain) ==
    NicAfterPush([call EXCEPT !.results = Append(@, NicFallback(domain))])

\* one iteration of the bulk loop up to its await
NicIteration(call) ==
    LET domain == normalizeDomain(call.domains[call.i + 1]) IN
    IF encodeThrows(domain)
    THEN searchNicChileBulk_catch([call EXCEPT !.kinds = Append(@, "throw"),
                                               !.pages = Append(@, HtmlBare)],
                                  domain)
    ELSE [call EXCEPT !.pc = "fetching", !.issued = @ + 1, !.inflight = @ + 1]

\* searchNicChileBulk up to its first await
searchNicChileBulk(domains, whois) ==
    LET call == [NicOff EXCEPT !.bulk = TRUE, !.domains = domains,
                               !.whois = whois]
    IN IF Len(domains) = 0
       THEN Done(call, ProviderSearchResult("nicchile", <<>>, Null))
       ELSE NicIteration(call)

\* the request of iteration i completes
NicFetchDone ==
    /\ nic.pc = "fetching"
    /\ \E up \in NicResponses :
         \* kinds, pages: history, how the request of each iteration ended
         \* and the body it returned
         LET call == [nic EXCEPT !.inflight = @ - 1,
                                 !.kinds = Append(@, up.kind),
                                 !.pages = Append(@, up.html),
                                 !.failures = @ \cup FailureOf(up, "bulk-lookup")]
             domain == normalizeDomain(nic.domains[nic.i + 1])
         IN nic' =
              IF up.kind = "throw" THEN searchNicChileBulk_catch(call, domain)
              ELSE NicAfterPush(
                       [call EXCEPT !.results =
                           Append(@, IF up.kind = "ok"
                                     THEN parseDomainResult(domain, up.html, nic.whois)
                                     ELSE NicFallback(domain))])
    /\ settleOrder' = IF Settled(nic') THEN Append(settleOrder, "nicchile")
                      ELSE settleOrder
    /\ UNCHANGED <<hpc, req, response, pb, iw, peer>>

\* the timer of BULK_DELAY_MS fires: the loop goes on with the next domain
NicDelayDone ==
    /\ nic.pc = "delaying"
    /\ nic' = NicIteration([nic EXCEPT !.i = @ + 1])
    /\ settleOrder' = IF Settled(nic') THEN Append(settleOrder, "nicchile")
                      ELSE settleOrder
    /\ UNCHANGED <<hpc, req, response, pb, iw, peer>>

----------------------------------------------------------------------------
(* Provider A: src/providers/porkbun.ts *)

\* an optional property of an upstream JSON object
None == [has |-> FALSE]
Some(v) == [has |-> TRUE, v |-> v]

DigitValue(c) == (CHOOSE i \in 1..10 : Digit[i] = c) - 1
IsDigit(c) == \E i \in 1..10 : Digit[i] = c

RECURSIVE DigitsPrefix(_, _)
\* the value of the longest prefix of decimal digits of s, after acc
DigitsPrefix(s, acc) ==
    IF s # <<>> /\ IsDigit(Head(s))
    THEN DigitsPrefix(Tail(s), 10 * acc + DigitValue(Head(s)))
    ELSE acc

\* parseInt(s, 10): leading white space, a sign, then decimal digits
parseInt(s) ==
    LET t == trimStart(s)
        negative == t # <<>> /\ Head(t) = "-"
        signed == t # <<>> /\ Head(t) \in {"-", "+"}
        body == IF signed THEN Tail(t) ELSE t
    IN IF body = <<>> \/ ~IsDigit(Head(body)) THEN NaN
       ELSE Num((IF negative THEN -1 ELSE 1) * DigitsPrefix(body, 0))

\* a PorkbunCheckResult: extended.premium, extended.price,
\* extended.typePricing.registration.price, extended.typePricing.renewal.price
PbItem(domain, result, premium, flat, reg, renew) ==
    [domain |-> domain, result |-> result, premium |-> premium,
     price |-> flat, regPrice |-> reg, renewPrice |-> renew]

\* variant: the renewal price is parsed whether it is reported or not
parsePorkbunResultRenewParsed(r) ==
    LET regPriceCents == IF r.regPrice.has THEN r.regPrice ELSE r.price
        reg == parseInt(regPriceCents.v)
        renew == IF r.renewPrice.has THEN parseInt(r.renewPrice.v) ELSE NaN
        price == IF regPriceCents.has /\ regPriceCents.v # <<>> /\ ~reg.nan
                 THEN Price(reg, renew) ELSE NoPrice
    IN DomainResult(r.domain, r.result = "AVAILABLE",
                    (IF r.premium.has THEN r.premium.v ELSE 0) > 0, price,
                    "porkbun", Absent, WhoisUndefined)

parsePorkbunResult(r) ==
    LET available == r.result = "AVAILABLE"
        premium == (IF r.premium.has THEN r.premium.v ELSE 0) > 0
        regPriceCents == IF r.regPrice.has THEN r.regPrice ELSE r.price
        renewPriceCents == r.renewPrice
        \* parseInt(x, 10) / 100, the amount in hundredths being parseInt(x, 10)
        reg == parseInt(regPriceCents.v)
        renew == IF renewPriceCents.has /\ renewPriceCents.v # <<>>
                 THEN parseInt(renewPriceCents.v) ELSE reg
        price == IF regPriceCents.has /\ regPriceCents.v # <<>> /\ ~reg.nan
                 THEN Price(reg, renew) ELSE NoPrice
    IN DomainResult(r.domain, available, premium, price, "porkbun",
                    Absent, WhoisUndefined)

\* variant: only the AVAILABLE items are kept
ParseAvailable(results) ==
    LET keep(r) == r.result = "AVAILABLE" IN
    [i \in 1..Len(SelectSeq(results, keep)) |->
        parsePorkbunResult(SelectSeq(results, keep)[i])]

\* variant: the items are mapped without the PENDING filter
ParseEvery(results) ==
    [i \in 1..Len(results) |-> parsePorkbunResult(results[i])]

RECURSIVE ParseResolved(_)
\* data.results.filter(r => r.result !== "PENDING").map(parsePorkbunResult)
ParseResolved(results) ==
    IF results = <<>> THEN <<>>
    ELSE (IF Head(results).result # "PENDING"
          THEN <<parsePorkbunResult(Head(results))>> ELSE <<>>)
         \o ParseResolved(Tail(results))

\* A Map of cookies: the entries <<name, value>> in insertion order
MapHas(m, k) == \E i \in 1..Len(m) : m[i][1] = k
MapGet(m, k) == m[CHOOSE i \in 1..Len(m) : m[i][1] = k][2]
MapSet(m, k, v) ==
    IF MapHas(m, k)
    THEN [i \in 1..Len(m) |-> IF m[i][1] = k THEN <<k, v>> ELSE m[i]]
    ELSE Append(m, <<k, v>>)

RECURSIVE MapSetAll(_, _)
MapSetAll(m, entries) ==
    IF entries = <<>> THEN m
    ELSE MapSetAll(MapSet(m, Head(entries)[1], Head(entries)[2]), Tail(entries))

\* the Set-Cookie headers of a response, each as the name and value the
\* pattern /^([^=]+)=([^;]*)/ matches
extractCookies(setCookie) == MapSetAll(<<>>, setCookie)

RECURSIVE JoinCookies(_)
\* Array.from(cookies.entries()).map(([k, v]) => `${k}=${v}`).join("; ")
JoinCookies(m) ==
    IF m = <<>> THEN ""
    ELSE m[1][1] \o "=" \o m[1][2]
         \o (IF Len(m) > 1 THEN "; " ELSE "") \o JoinCookies(Tail(m))

\* cookies.get("csrf_pb") ?? ""
CsrfOf(cookies) == IF MapHas(cookies, "csrf_pb") THEN MapGet(cookies, "csrf_pb") ELSE ""

NoSession == [acquired |-> FALSE]
SessionInfo(checkId, searchHash, csrfPb, cookieHeader) ==
    [acquired |-> TRUE, checkId |-> checkId, searchHash |-> searchHash,
     csrfPb |-> csrfPb, cookieHeader |-> cookieHeader]

\* variant: the session is accepted without the csrf_pb cookie
parseSessionIdsOnly(html, setCookie) ==
    LET cookies == extractCookies(setCookie) IN
    IF html.checkId = Absent \/ html.searchHash = Absent THEN NoSession
    ELSE SessionInfo(html.checkId, html.searchHash, CsrfOf(cookies),
                     JoinCookies(cookies))

\* parseSession(html, resp): null (NoSession) or the session
parseSession(html, setCookie) ==
    LET cookies == extractCookies(setCookie)
        csrfPb == CsrfOf(cookies)
    IN IF html.checkId = Absent \/ html.searchHash = Absent THEN NoSession
       ELSE IF csrfPb = "" THEN NoSession
       ELSE SessionInfo(html.checkId, html.searchHash, csrfPb, JoinCookies(cookies))

DELAYS == <<500, 500, 500, 1000, 2000, 3000, 3000, 3000, 3000, 3000>>
MAX_ATTEMPTS == Len(DELAYS)

\* the HTML of a search page: the inline script's checkId and searchHash, and
\* the hidden input prb
PbHtml(checkId, searchHash, prb) ==
    [checkId |-> checkId, searchHash |-> searchHash, prb |-> prb]
NoHtml == PbHtml(Absent, Absent, Absent)

PbPageUp(kind, err, status, html, setCookie) ==
    [kind |-> kind, err |-> err, status |-> status, html |-> html,
     setCookie |-> setCookie]

\* two search pages, each with a session of its own
PbSessionPages ==
    {PbPageUp("ok", Null, 200, PbHtml("chk1", "hash1", "prb1"),
              << <<"csrf_pb", "t1">> >>),
     PbPageUp("ok", Null, 200, PbHtml("chk2", "hash2", Absent),
              << <<"sid", "s1">>, <<"csrf_pb", "t2">> >>)}

\* the responses of GET and POST /checkout/search
PbPageResponses ==
    IF Concurrent THEN PbSessionPages ELSE
    {PbPageUp("status", Null, 500, NoHtml, <<>>),
     PbPageUp("ok", Null, 200, PbHtml("chk1", "hash1", "prb1"),
              << <<"csrf_pb", "t1">> >>),
     PbPageUp("ok", Null, 200, PbHtml("chk1", "hash1", Absent),
              << <<"sid", "s1">> >>)}
    \cup (IF Combined THEN {}
          ELSE {PbPageUp("throw", NetworkError, 0, NoHtml, <<>>),
                PbPageUp("throw", TimeoutError, 0, NoHtml, <<>>),
                PbPageUp("ok", Null, 200, PbHtml(Absent, "hash1", "prb1"),
                         << <<"csrf_pb", "t1">> >>),
                PbPageUp("ok", Null, 200, PbHtml("chk2", "hash2", Absent),
                         << <<"sid", "s1">>, <<"csrf_pb", "t2">> >>),
                PbPageUp("ok", Null, 200, PbHtml("chk1", Absent, "prb1"),
                         << <<"csrf_pb", "t1">> >>),
                PbPageUp("ok", Null, 200, PbHtml("chk1", "hash1", "prb1"),
                         << <<"csrf_pb", "">> >>)})

PbPollUp(kind, err, status, results) ==
    [kind |-> kind, err |-> err, status |-> status, results |-> results]

PbAvailable == PbItem(ExampleAi, "AVAILABLE", None, None, Some(<<"1","9","9","9">>), None)
PbPending == PbItem(ExampleAi, "PENDING", None, None, None, None)
PbTaken ==
    PbItem(SubExampleAi, "UNAVAILABLE", Some(1), Some(<<"2","5","0","0">>), None,
           Some(<<"3","0","0","0">>))
PbOdd == PbItem(ExampleAiMixed, "AVAILABLE", None, None, Some(<<"-","5","0","0">>), Some(<<"x">>))

PbItems == {PbAvailable, PbPending, PbTaken}

\* the responses of POST /api/domains/getChecks; "badbody" is a body
\* resp.json() rejects
PbPollResponses ==
    IF Concurrent
    THEN {PbPollUp("ok", Null, 200, Some(<<PbAvailable>>)),
          PbPollUp("ok", Null, 200, Some(<<PbPending>>))} ELSE
    {PbPollUp("throw", NetworkError, 0, None),
     PbPollUp("status", Null, 500, None)}
    \cup {PbPollUp("ok", Null, 200, Some(rs)) :
            rs \in IF Combined THEN {<<PbAvailable>>, <<PbPending>>}
                   ELSE ListsUpTo(PbItems, MaxPollItems) \cup {<<PbOdd>>}}
    \cup (IF Combined THEN {}
          ELSE {PbPollUp("throw", TimeoutError, 0, None),
                PbPollUp("ok", Null, 200, None),
                PbPollUp("badbody", SyntaxError, 200, None)})

PbOff ==
    [pc |-> "off", bulk |-> FALSE, query |-> <<>>, domains |-> <<>>,
     page |-> PbPageUp("none", Null, 0, NoHtml, <<>>),
     post |-> PbPageUp("none", Null, 0, NoHtml, <<>>),
     session |-> NoSession, attempt |-> 0, polls |-> 0, sleeps |-> 0,
     pollReq |-> NoSession, last |-> PbPollUp("none", Null, 0, None),
     onlyPending |-> TRUE, onlyEmpty |-> TRUE,
     failures |-> {},
     outcome |-> ProviderSearchResult("porkbun", <<>>, Null)]

\* variant: the catch block reports no error
searchPorkbun_swallow(call, err) ==
    Done(call, ProviderSearchResult("porkbun", <<>>, Null))

\* the catch block of searchPorkbun
searchPorkbun_catch(call, err) ==
    Done(call, ProviderSearchResult("porkbun", <<>>, ErrorMessage(err)))

\* variant: no catch block, the exception leaves the driver
searchPorkbunBulk_rethrow(call, err) == Rejected(call, err)

\* the catch block of searchPorkbunBulk
searchPorkbunBulk_catch(call, err) ==
    Done(call, ProviderSearchResult("porkbun", <<>>, ErrorMessage(err)))

PbCatch(call, err) ==
    IF call.bulk THEN searchPorkbunBulk_catch(call, err)
    ELSE searchPorkbun_catch(call, err)

\* variant: the session is kept in a variable of the module, so a request
\* carries the session another running call has stored there
PollIssueShared(call) ==
    [call EXCEPT !.pc = "polling", !.polls = @ + 1,
                 !.pollReq = IF peer.pb.session.acquired THEN peer.pb.session
                             ELSE call.session]

\* pollForResults: the fetch of one attempt is issued with the session's values
PollIssue(call) ==
    [call EXCEPT !.pc = "polling", !.polls = @ + 1, !.pollReq = call.session]

\* pollForResults is entered: the loop starts with attempt 0
pollForResults(call, session) ==
    PollIssue([call EXCEPT !.session = session, !.attempt = 0])

\* variant: an empty list of results is reported as a failure
PollReturnOrFail(call, results) ==
    Done(call, ProviderSearchResult(
                   "porkbun", results,
                   IF results = <<>> THEN "No results from Porkbun" ELSE Null))

\* pollForResults returned results: both callers wrap them the same way
PollReturn(call, results) ==
    Done(call, ProviderSearchResult("porkbun", results, Null))

\* await sleep(DELAYS[attempt]); continue
PollSleep(call) == [call EXCEPT !.pc = "sleeping", !.sleeps = @ + 1]

\* variant: every item is PENDING
hasPendingOnly(results) == \A i \in 1..Len(results) : results[i].result = "PENDING"

hasPending(results) == \E i \in 1..Len(results) : results[i].result = "PENDING"

\* variant: a request that throws is waited on and repeated like one that
\* is answered with a non-success status
PollAttemptRetryThrown(call, up) ==
    IF up.kind = "badbody" THEN PbCatch(call, up.err)
    ELSE IF up.kind \in {"throw", "status"} THEN PollSleep(call)
    ELSE IF ~up.results.has \/ up.results.v = <<>> THEN PollSleep(call)
    ELSE IF hasPending(up.results.v) /\ call.attempt < MAX_ATTEMPTS - 1
         THEN PollSleep(call)
    ELSE PollReturn(call, ParseResolved(up.results.v))

\* one attempt of pollForResults, from the response of its request
PollAttempt(call, up) ==
    IF up.kind \in {"throw", "badbody"} THEN PbCatch(call, up.err)
    ELSE IF up.kind = "status" THEN PollSleep(call)
    ELSE IF ~up.results.has \/ up.results.v = <<>> THEN PollSleep(call)
    ELSE IF hasPending(up.results.v) /\ call.attempt < MAX_ATTEMPTS - 1
         THEN PollSleep(call)
    ELSE PollReturn(call, ParseResolved(up.results.v))

\* searchPorkbun up to its first await
searchPorkbun(query) ==
    LET call == [PbOff EXCEPT !.query = query] IN
    IF encodeThrows(toLowerCase(trim(query)))
    THEN searchPorkbun_catch(call, URIError)
    ELSE [call EXCEPT !.pc = "page"]

\* searchPorkbunBulk up to its first await; encodeURIComponent(domains[0])
\* of an empty list encodes "undefined"
searchPorkbunBulk(domains) ==
    LET call == [PbOff EXCEPT !.bulk = TRUE, !.domains = domains] IN
    IF Len(domains) > 0 /\ encodeThrows(domains[1])
    THEN searchPorkbunBulk_catch(call, URIError)
    ELSE [call EXCEPT !.pc = "bulkinit"]

PbStep(next) ==
    /\ pb' = next
    /\ settleOrder' = IF Settled(next) THEN Append(settleOrder, "porkbun")
                      ELSE settleOrder
    /\ UNCHANGED <<hpc, req, response, iw, nic, peer>>

\* searchPorkbun from the response up of its search page request
searchPorkbun_afterPage(running, up) ==
    LET call == [running EXCEPT !.page = up,
                                !.failures = @ \cup FailureOf(up, "page")]
        session == parseSession(up.html, up.setCookie)
    IN IF up.kind = "throw" THEN searchPorkbun_catch(call, up.err)
       ELSE IF up.kind = "status" THEN
              Done(call, ProviderSearchResult(
                             "porkbun", <<>>,
                             HttpError(up.status, "search page")))
       ELSE IF ~session.acquired THEN
              Done([call EXCEPT !.failures = @ \cup {<<"session", "page">>}],
                   ProviderSearchResult(
                       "porkbun", <<>>,
                       "Could not extract session from Porkbun page"))
       ELSE pollForResults(call, session)

\* searchPorkbun: the search page arrives
PbPageDone ==
    /\ pb.pc = "page"
    /\ \E up \in PbPageResponses : PbStep(searchPorkbun_afterPage(pb, up))

\* searchPorkbunBulk from the response up of its search page request
searchPorkbunBulk_afterInit(running, up) ==
    LET call == [running EXCEPT !.page = up,
                                !.failures = @ \cup FailureOf(up, "page")]
        csrfPb == CsrfOf(extractCookies(up.setCookie))
    IN IF up.kind = "throw" THEN searchPorkbunBulk_catch(call, up.err)
       ELSE IF up.kind = "status" THEN
              Done(call, ProviderSearchResult(
                             "porkbun", <<>>,
                             HttpError(up.status, "search page")))
       ELSE IF csrfPb = "" THEN
              Done([call EXCEPT !.failures = @ \cup {<<"session", "page">>}],
                   ProviderSearchResult(
                       "porkbun", <<>>,
                       "Could not extract csrf_pb cookie from Porkbun"))
       ELSE [call EXCEPT !.pc = "bulkpost"]

\* searchPorkbunBulk: the search page arrives; the bulk search is posted
PbBulkInitDone ==
    /\ pb.pc = "bulkinit"
    /\ \E up \in PbPageResponses : PbStep(searchPorkbunBulk_afterInit(pb, up))

\* searchPorkbunBulk from the response up of its bulk search request
searchPorkbunBulk_afterPost(running, up) ==
    LET call == [running EXCEPT !.post = up,
                                !.failures = @ \cup FailureOf(up, "bulk")]
        initCookies == extractCookies(running.page.setCookie)
        csrfPb == CsrfOf(initCookies)
        bulkCookies == extractCookies(up.setCookie)
        mergedCookies == MapSetAll(initCookies, bulkCookies)
        cookieHeader == JoinCookies(mergedCookies)
        finalCsrf == IF MapHas(mergedCookies, "csrf_pb")
                     THEN MapGet(mergedCookies, "csrf_pb") ELSE csrfPb
    IN IF up.kind = "throw" THEN searchPorkbunBulk_catch(call, up.err)
       ELSE IF up.kind = "status" THEN
              Done(call, ProviderSearchResult(
                             "porkbun", <<>>,
                             HttpError(up.status, "bulk search")))
       ELSE IF up.html.checkId = Absent \/ up.html.searchHash = Absent THEN
              Done([call EXCEPT !.failures = @ \cup {<<"session", "bulk">>}],
                   ProviderSearchResult(
                       "porkbun", <<>>,
                       "Could not extract checkId/searchHash from bulk response"))
       ELSE pollForResults(
                call, SessionInfo(up.html.checkId, up.html.searchHash,
                                  finalCsrf, cookieHeader))

\* searchPorkbunBulk: the response of the bulk search arrives
PbBulkPostDone ==
    /\ pb.pc = "bulkpost"
    /\ \E up \in PbPageResponses : PbStep(searchPorkbunBulk_afterPost(pb, up))

\* pollForResults from the response up of a status-check request
pollForResults_afterFetch(running, up) ==
    PollAttempt([running EXCEPT !.last = up,
                                !.failures = @ \cup FailureOf(up, "poll")],
                up)

\* pollForResults: the response of a status-check request arrives
PbPollDone ==
    /\ pb.pc = "polling"
    /\ \E up \in PbPollResponses : PbStep(pollForResults_afterFetch(pb, up))

\* variant: the loop goes on without counting the attempt
pollForResults_retryForever(running) == PollIssue(running)

\* pollForResults from the end of a sleep: attempt++ and the loop test
pollForResults_afterSleep(running) ==
    LET allPending == running.last.kind = "ok" /\ running.last.results.has
                      /\ running.last.results.v # <<>>
                      /\ \A i \in 1..Len(running.last.results.v) :
                           running.last.results.v[i].result = "PENDING"
        empty == running.last.kind = "status"
                 \/ (running.last.kind = "ok"
                     /\ (~running.last.results.has \/ running.last.results.v = <<>>))
        next == [running EXCEPT !.attempt = @ + 1]
        \* what every response before the one now requested has been
        call == [next EXCEPT !.onlyPending = @ /\ allPending,
                             !.onlyEmpty = @ /\ empty]
    IN IF next.attempt < MAX_ATTEMPTS THEN PollIssue(call)
       ELSE PollReturn(next, <<>>)

\* pollForResults: the sleep ends; the next attempt, or the end of the loop
PbSleepDone ==
    /\ pb.pc = "sleeping"
    /\ PbStep(pollForResults_afterSleep(pb))

----------------------------------------------------------------------------
(* Provider B: src/providers/iwantmyname.ts *)

STATUS_AVAILABLE == 4
STATUS_UNAVAILABLE == 7
STATUS_RESERVED == 8
STATUS_PREREGISTRATION == 9

EuroSign == "{U+20AC}"
PoundSign == "{U+00A3}"

Entity(name) == <<"&">> \o name \o <<";">>

HTML_ENTITIES ==
    [e \in {Entity(<<"#","3","6">>), Entity(<<"e","u","r","o">>),
            Entity(<<"p","o","u","n","d">>), Entity(<<"a","m","p">>),
            Entity(<<"l","t">>), Entity(<<"g","t">>),
            Entity(<<"q","u","o","t">>)} |->
        IF e = Entity(<<"#","3","6">>) THEN <<"$">>
        ELSE IF e = Entity(<<"e","u","r","o">>) THEN <<EuroSign>>
        ELSE IF e = Entity(<<"p","o","u","n","d">>) THEN <<PoundSign>>
        ELSE IF e = Entity(<<"a","m","p">>) THEN <<"&">>
        ELSE IF e = Entity(<<"l","t">>) THEN <<"<">>
        ELSE IF e = Entity(<<"g","t">>) THEN <<">">>
        ELSE <<"\"">>]

\* \w of a regular expression
IsWordChar(c) ==
    \/ IsDigit(c)
    \/ c = "_"
    \/ \E i \in 1..26 : c = UpperChars[i] \/ c = LowerChars[i]

RECURSIVE WordRun(_)
\* the length of the longest prefix of word characters
WordRun(s) == IF s # <<>> /\ IsWordChar(Head(s)) THEN 1 + WordRun(Tail(s)) ELSE 0

\* the length of the match of /&#?\w+;/ at the start of s, or 0
EntityMatch(s) ==
    IF s = <<>> \/ Head(s) # "&" THEN 0
    ELSE LET hash == IF Len(s) >= 2 /\ s[2] = "#" THEN 1 ELSE 0
             run == WordRun(SubSeq(s, 2 + hash, Len(s)))
             end == 2 + hash + run
         IN IF run > 0 /\ end <= Len(s) /\ s[end] = ";" THEN end ELSE 0

RECURSIVE decodeHtmlEntities(_)
decodeHtmlEntities(s) ==
    IF s = <<>> THEN <<>>
    ELSE LET n == EntityMatch(s) IN
         IF n = 0 THEN <<Head(s)>> \o decodeHtmlEntities(Tail(s))
         ELSE LET m == SubSeq(s, 1, n) IN
              (IF m \in DOMAIN HTML_ENTITIES THEN HTML_ENTITIES[m] ELSE m)
              \o decodeHtmlEntities(SubSeq(s, n + 1, Len(s)))

RECURSIVE StripNonNumeric(_)
\* s.replace(/[^0-9.]/g, "")
StripNonNumeric(s) ==
    IF s = <<>> THEN <<>>
    ELSE (IF IsDigit(Head(s)) \/ Head(s) = "." THEN <<Head(s)>> ELSE <<>>)
         \o StripNonNumeric(Tail(s))

RECURSIVE DigitRun(_)
DigitRun(s) == IF s # <<>> /\ IsDigit(Head(s)) THEN 1 + DigitRun(Tail(s)) ELSE 0

\* parseFloat of a string of digits and dots, in hundredths; the model's
\* amounts have at most two decimals
parseFloat(s) ==
    LET int == DigitRun(s)
        rest == SubSeq(s, int + 1, Len(s))
        frac == IF rest # <<>> /\ Head(rest) = "." THEN DigitRun(Tail(rest)) ELSE 0
        digits == IF frac > 0 THEN SubSeq(rest, 2, 1 + frac) ELSE <<>>
        d1 == IF frac >= 1 THEN DigitValue(digits[1]) ELSE 0
        d2 == IF frac >= 2 THEN DigitValue(digits[2]) ELSE 0
    IN IF int = 0 /\ frac = 0 THEN NaN
       ELSE Num(100 * DigitsPrefix(s, 0) + 10 * d1 + d2)

parsePrice(s) == parseFloat(StripNonNumeric(decodeHtmlEntities(s)))

\* a PrepareItem: domain, status, premium, prices.USD.price, renewalPrices.USD
PrepareItem(domain, status, premium, regPrice, renewalPrice) ==
    [domain |-> domain, status |-> status, premium |-> premium,
     regPrice |-> regPrice, renewalPrice |-> renewalPrice]

IwPrice(item) ==
    LET regNum == parsePrice(item.regPrice.v)
        renewNum == IF item.renewalPrice.has /\ item.renewalPrice.v # <<>>
                    THEN parsePrice(item.renewalPrice.v) ELSE regNum
    IN IF item.regPrice.has /\ item.regPrice.v # <<>> /\ ~regNum.nan
       THEN Price(regNum, renewNum) ELSE NoPrice

IsAvailableStatus(status) ==
    status = STATUS_AVAILABLE \/ status = STATUS_PREREGISTRATION

\* the bucket of a prepare item
NeedsCheck(item) ==
    ~(item.status.has
      /\ item.status.v \in {STATUS_AVAILABLE, STATUS_PREREGISTRATION,
                            STATUS_UNAVAILABLE, STATUS_RESERVED})

\* the DomainResult pushed for a prepare item
PrepareResult(item) ==
    DomainResult(item.domain,
                 item.status.has /\ IsAvailableStatus(item.status.v),
                 item.premium = "y", IwPrice(item), "iwantmyname",
                 Absent, WhoisUndefined)

RECURSIVE PrepareResults(_)
\* the loop over prepare.data: results
PrepareResults(data) ==
    IF data = <<>> THEN <<>>
    ELSE (IF Head(data).domain = <<>> THEN <<>>
          ELSE <<PrepareResult(Head(data))>>)
         \o PrepareResults(Tail(data))

RECURSIVE PendingDomains(_)
\* the loop over prepare.data: pendingDomains
PendingDomains(data) ==
    IF data = <<>> THEN <<>>
    ELSE (IF Head(data).domain # <<>> /\ NeedsCheck(Head(data))
          THEN <<Head(data).domain>> ELSE <<>>)
         \o PendingDomains(Tail(data))

chunkSize == 30

RECURSIVE ChunksTrailing(_)
\* variant: the loop runs while i <= domains.length
ChunksTrailing(domains) ==
    IF Len(domains) < chunkSize THEN <<domains>>
    ELSE <<SubSeq(domains, 1, chunkSize)>>
         \o ChunksTrailing(SubSeq(domains, chunkSize + 1, Len(domains)))

RECURSIVE Chunks(_)
\* for (i = 0; i < domains.length; i += chunkSize) chunks.push(domains.slice(i, i + chunkSize))
Chunks(domains) ==
    IF domains = <<>> THEN <<>>
    ELSE IF Len(domains) <= chunkSize THEN <<domains>>
    ELSE <<SubSeq(domains, 1, chunkSize)>>
         \o Chunks(SubSeq(domains, chunkSize + 1, Len(domains)))

\* Object.assign(target, source) on status maps
ObjectAssign(target, source) ==
    [d \in DOMAIN target \cup DOMAIN source |->
        IF d \in DOMAIN source THEN source[d] ELSE target[d]]

EmptyObject == [d \in {} |-> 0]

\* the loop of doSearch over results with the merged secondary statuses
ApplyCheck(results, checkResults) ==
    [i \in 1..Len(results) |->
        IF results[i].domain \in DOMAIN checkResults
        THEN [results[i] EXCEPT
                !.available = IsAvailableStatus(checkResults[results[i].domain])]
        ELSE results[i]]

\* domains.join(sep) on character sequences
RECURSIVE Join(_, _)
Join(strings, sep) ==
    IF strings = <<>> THEN <<>>
    ELSE IF Len(strings) = 1 THEN strings[1]
    ELSE strings[1] \o <<sep>> \o Join(Tail(strings), sep)

\* extractCookieHeader: cookies.map(c => c.split(";")[0]).join("; ")
extractCookieHeader(setCookie) == JoinCookies(setCookie)

IwPrepareUp(kind, err, status, errMsg, data, setCookie) ==
    [kind |-> kind, err |-> err, status |-> status, errMsg |-> errMsg,
     data |-> data, setCookie |-> setCookie]

Usd1250 == <<"&","#","3","6",";","1","2",".","5","0">>
Usd20 == <<"$","2","0">>
Usd25 == <<"$","2","5",".","0","0">>
Eur999 == <<"&","e","u","r","o",";","9",".","9","9">>

IwItemAvailable == PrepareItem(ExampleAi, Some(4), "y", Some(Usd1250), None)
IwItemTaken == PrepareItem(SubExampleAi, Some(7), Absent, Some(Usd20), Some(Usd25))
IwItemPending == PrepareItem(ExampleAi, Some(1), Absent, None, None)
IwItemNoStatus == PrepareItem(FooCl, None, Absent, Some(<<"n","/","a">>), None)
IwItemNoDomain == PrepareItem(<<>>, Some(4), Absent, None, None)
IwItemPrereg == PrepareItem(SubExampleAi, Some(9), Absent, Some(Eur999), Some(<<"?">>))
IwItemReserved == PrepareItem(FooCl, Some(8), Absent, None, None)

IwItems ==
    {IwItemAvailable, IwItemTaken, IwItemPending, IwItemNoStatus,
     IwItemNoDomain, IwItemPrereg, IwItemReserved}

\* the statuses of a long prepare list repeat one of these patterns
StatusPatterns ==
    {<<Some(1)>>, <<Some(1), Some(4)>>, <<Some(7), None, Some(9)>>, <<Some(8)>>}

\* a long prepare list: n generated domains, no prices
LongData(n, pattern) ==
    [i \in 1..n |->
        PrepareItem(GenDomain(i), pattern[((i - 1) % Len(pattern)) + 1],
                    Absent, None, None)]

LongLengths ==
    {chunkSize - 1, chunkSize, chunkSize + 1, 45, 2 * chunkSize, MaxPrepare}

IwCookies == << <<"PHPSESSID", "sess1">> >>
IwCookiesOther == << <<"PHPSESSID", "sess2">>, <<"lang", "en">> >>

\* the responses of the prepare endpoint
IwPrepareResponses ==
    IF Concurrent
    THEN {IwPrepareUp("ok", Null, 200, Absent, Some(<<IwItemPending>>), IwCookies),
          IwPrepareUp("ok", Null, 200, Absent,
                      Some(LongData(chunkSize + 1, <<Some(1)>>)), IwCookiesOther)}
    ELSE
    {IwPrepareUp("status", Null, 500, Absent, None, <<>>),
     IwPrepareUp("ok", Null, 200, "Too many requests", None, IwCookies)}
    \cup {IwPrepareUp("ok", Null, 200, Absent, Some(data), IwCookies) :
            data \in IF Combined THEN {<<IwItemAvailable>>, <<IwItemPending>>}
                     ELSE SeqsUpTo(IwItems, MaxPrepareShort)}
    \cup (IF Combined THEN {}
          ELSE {IwPrepareUp("throw", NetworkError, 0, Absent, None, <<>>),
                IwPrepareUp("throw", TimeoutError, 0, Absent, None, <<>>),
                IwPrepareUp("ok", Null, 200, Absent, None, IwCookies),
                IwPrepareUp("badbody", SyntaxError, 200, Absent, None, <<>>),
                IwPrepareUp("ok", Null, 200, Absent, Some(<<IwItemPending>>), <<>>)}
               \cup {IwPrepareUp("ok", Null, 200, Absent,
                                 Some(LongData(n, pattern)), IwCookies) :
                       n \in LongLengths, pattern \in StatusPatterns})

IwCheckUp(kind, err, status, result) ==
    [kind |-> kind, err |-> err, status |-> status, result |-> result]

\* the responses of the secondary-check endpoint to the request of one chunk;
\* other is a domain of the prepare list that the chunk may not hold
IwCheckResponses(chunk, other) ==
    IF Concurrent
    THEN {IwCheckUp("status", Null, 500, None),
          IwCheckUp("ok", Null, 200, Some([d \in Range(chunk) |-> STATUS_AVAILABLE]))}
    ELSE
    {IwCheckUp("throw", NetworkError, 0, None),
     IwCheckUp("status", Null, 500, None),
     IwCheckUp("ok", Null, 200, Some([d \in Range(chunk) |-> STATUS_AVAILABLE]))}
    \cup (IF Combined THEN {}
          ELSE {IwCheckUp("throw", TimeoutError, 0, None),
                IwCheckUp("ok", Null, 200, None),
                IwCheckUp("ok", Null, 200,
                          Some([d \in Range(chunk) |-> STATUS_UNAVAILABLE])),
                IwCheckUp("badbody", SyntaxError, 200, None),
                IwCheckUp("ok", Null, 200, Some(EmptyObject)),
                IwCheckUp("ok", Null, 200,
                          Some([d \in {chunk[1]} |-> STATUS_PREREGISTRATION])),
                IwCheckUp("ok", Null, 200,
                          Some([d \in {chunk[1], other} |-> STATUS_AVAILABLE])),
                IwCheckUp("ok", Null, 200,
                          Some([d \in {chunk[1], other} |-> STATUS_RESERVED]))})

IwOff ==
    [pc |-> "off", domainName |-> <<>>, prepare |-> "none",
     setCookie |-> <<>>, cookieHeader |-> "", data |-> <<>>, results |-> <<>>, prepared |-> <<>>,
     pendingDomains |-> <<>>,
     chunks |-> <<>>, requests |-> <<>>, chunkState |-> <<>>, checked |-> <<>>,
     allResults |-> EmptyObject, failures |-> {},
     outcome |-> ProviderSearchResult("iwantmyname", <<>>, Null)]

\* variant: the catch block returns the results parsed so far
doSearch_catchPartial(call, err) ==
    Done(call, ProviderSearchResult("iwantmyname", call.results, ErrorMessage(err)))

\* the catch block of doSearch
doSearch_catch(call, err) ==
    Done(call, ProviderSearchResult("iwantmyname", <<>>, ErrorMessage(err)))

\* doSearch up to its first await: the prepare request is issued
doSearch(domainName) == [IwOff EXCEPT !.pc = "prepare", !.domainName = domainName]

searchIwantmyname(query) == doSearch(toLowerCase(trim(query)))

searchIwantmynameBulk(domains) ==
    doSearch(Join([i \in 1..Len(domains) |-> toLowerCase(trim(domains[i]))], "\n"))

\* checkAvailability up to its await: one request per chunk, all issued at once
checkAvailability(call, domains, cookieHeader) ==
    LET chunks == Chunks(domains) IN
    [call EXCEPT !.pc = "check",
                 !.chunks = chunks,
                 !.requests = [c \in 1..Len(chunks) |->
                                  [domainNames |-> chunks[c], Cookie |-> cookieHeader]],
                 !.chunkState = [c \in 1..Len(chunks) |-> "inflight"],
                 !.checked = [c \in 1..Len(chunks) |-> None],
                 !.allResults = EmptyObject]

\* doSearch after checkAvailability returned
AfterCheck(call, allResults) ==
    LET checkResults == IF DOMAIN allResults # {} THEN Some(allResults) ELSE None
        results == IF checkResults.has THEN ApplyCheck(call.results, checkResults.v)
                   ELSE call.results
    IN Done([call EXCEPT !.results = results],
            ProviderSearchResult("iwantmyname", results, Null))

IwStep(next) ==
    /\ iw' = next
    /\ settleOrder' = IF Settled(next) THEN Append(settleOrder, "iwantmyname")
                      ELSE settleOrder
    /\ UNCHANGED <<hpc, req, response, pb, nic, peer>>

\* doSearch from the response up of its prepare request
doSearch_afterPrepare(running, up) ==
    LET cookieHeader == extractCookieHeader(up.setCookie)
        data == IF up.data.has THEN up.data.v ELSE <<>>
        results == PrepareResults(data)
        pendingDomains == PendingDomains(data)
        \* setCookie: history, the Set-Cookie headers of the prepare response
        call == [running EXCEPT !.prepare = up.kind,
                                !.failures = @ \cup FailureOf(up, "prepare"),
                                !.setCookie = up.setCookie,
                                !.cookieHeader = cookieHeader]
        \* data, prepared: history, the prepare data and the results as
        \* parsed from it
        parsed == [call EXCEPT !.data = data,
                               !.results = results,
                               !.prepared = results,
                               !.pendingDomains = pendingDomains]
    IN IF up.kind \in {"throw", "badbody"} THEN doSearch_catch(call, up.err)
       ELSE IF up.kind = "status" THEN
              Done(call, ProviderSearchResult(
                             "iwantmyname", <<>>,
                             HttpError(up.status, "prepare endpoint")))
       ELSE IF up.errMsg # Absent THEN
              Done([call EXCEPT !.failures = @ \cup {<<"upstream", "prepare">>}],
                   ProviderSearchResult("iwantmyname", <<>>, up.errMsg))
       ELSE IF Len(pendingDomains) > 0
            THEN checkAvailability(parsed, pendingDomains, cookieHeader)
       ELSE Done(parsed, ProviderSearchResult("iwantmyname", results, Null))

\* doSearch: the response of the prepare endpoint arrives
IwPrepareDone ==
    /\ iw.pc = "prepare"
    /\ \E up \in IwPrepareResponses : IwStep(doSearch_afterPrepare(iw, up))

\* checkAvailability from the response up to the request of chunk c; with
\* the last one Promise.all is fulfilled, with a thrown one it is rejected
checkAvailability_afterFetch(running, c, up) ==
    LET allResults ==
            IF up.kind = "ok" /\ up.result.has
            THEN ObjectAssign(running.allResults, up.result.v)
            ELSE running.allResults
        \* checked: history, data.result of the response to each chunk's request
        call == [running EXCEPT !.chunkState[c] = up.kind,
                                !.checked[c] = IF up.kind = "ok" THEN up.result ELSE None,
                                !.failures = @ \cup FailureOf(up, "check"),
                                !.allResults = allResults]
    IN IF up.kind \in {"throw", "badbody"}
       THEN doSearch_catch(call, up.err)
       ELSE IF \A k \in 1..Len(running.chunks) :
                 call.chunkState[k] # "inflight"
            THEN AfterCheck(call, allResults)
       ELSE call

\* checkAvailability: the response to the request of chunk c arrives
IwChunkDone ==
    /\ iw.pc = "check"
    /\ \E c \in 1..Len(iw.chunks) :
         /\ iw.chunkState[c] = "inflight"
         /\ \E up \in IwCheckResponses(iw.chunks[c], iw.results[1].domain) :
              IwStep(checkAvailability_afterFetch(iw, c, up))

----------------------------------------------------------------------------
(* The tool handlers: src/index.ts *)

SingleTools ==
    {"search_iwantmyname", "search_porkbun", "search_nicchile", "search_domains"}
BulkTools ==
    {"bulk_search_iwantmyname", "bulk_search_porkbun", "bulk_search_nicchile",
     "bulk_search_domains"}
Tools == SingleTools \cup BulkTools

\* the driver calls a handler makes, in the order of its array
Searches(tool) ==
    IF tool \in {"search_iwantmyname", "bulk_search_iwantmyname"}
    THEN <<"iwantmyname">>
    ELSE IF tool \in {"search_porkbun", "bulk_search_porkbun"} THEN <<"porkbun">>
    ELSE IF tool \in {"search_nicchile", "bulk_search_nicchile"} THEN <<"nicchile">>
    ELSE IF tool \in {"search_domains", "bulk_search_domains"}
    THEN <<"iwantmyname", "porkbun", "nicchile">>
    ELSE <<>>

\* the tools whose schema has the parameter
HasExact == {"search_iwantmyname", "search_porkbun", "search_domains"}
HasWhois ==
    {"search_nicchile", "search_domains", "bulk_search_nicchile",
     "bulk_search_domains"}

NoRequest ==
    [tool |-> "none", query |-> <<>>, domains |-> <<>>, exact |-> FALSE,
     whois |-> FALSE]

\* the queries a caller passes to a single-domain tool
QueriesOf(tool) ==
    IF tool = "search_nicchile" THEN Queries
    ELSE IF tool = "search_domains" THEN {ExampleAiPadded, FooBare, FooCl, BadName}
    ELSE {ExampleAiPadded, BadName}

\* the domain lists a caller passes to a bulk tool: stretches of up to MaxBulk
\* names of this list
BulkPool == <<ExampleAiPadded, FooBare, FooCl, BadName, ExampleAi, SubExampleAi>>
BulkLists ==
    {SubSeq(BulkPool, a, b) : a \in 1..Len(BulkPool), b \in 0..Len(BulkPool)}
    \cap SeqsUpTo(Range(BulkPool), MaxBulk)
BulkListsOf(tool) ==
    IF tool = "bulk_search_nicchile" THEN BulkLists
    ELSE IF tool = "bulk_search_domains"
    THEN {<<>>, <<ExampleAiPadded, FooCl>>, <<FooBare, FooCl>>,
          <<BadName, ExampleAi>>}
    ELSE {l \in BulkLists : Len(l) \in {0, MaxBulk}}

CallOf(provider) ==
    IF provider = "iwantmyname" THEN iw
    ELSE IF provider = "porkbun" THEN pb
    ELSE nic

\* variant: the handler goes on with the first promise that is fulfilled
PromiseAny(searches) ==
    \/ \E i \in 1..Len(searches) : CallOf(searches[i]).pc = "done"
    \/ \E i \in 1..Len(searches) : CallOf(searches[i]).pc = "rejected"

\* Promise.all(searches) is settled: every promise fulfilled, or one rejected
PromiseAllSettled(searches) ==
    \/ \A i \in 1..Len(searches) : CallOf(searches[i]).pc = "done"
    \/ \E i \in 1..Len(searches) : CallOf(searches[i]).pc = "rejected"

\* variant: the outcomes in the order in which the calls settled
PromiseAllBySettling(searches) ==
    [i \in 1..Len(settleOrder) |-> CallOf(settleOrder[i]).outcome]

\* variant: one failed provider blanks the results of all
PromiseAllOrNothing(searches) ==
    LET failed == \E i \in 1..Len(searches) :
                      CallOf(searches[i]).outcome.error # Null
    IN [i \in 1..Len(searches) |->
           IF failed THEN [CallOf(searches[i]).outcome EXCEPT !.results = <<>>]
           ELSE CallOf(searches[i]).outcome]

\* the value of Promise.all(searches): the outcomes in the order of searches
PromiseAll(searches) ==
    [i \in 1..Len(searches) |-> CallOf(searches[i]).outcome]

\* the post-filter of each handler
PostFilter(request, results) ==
    IF request.tool \in HasExact
    THEN (IF request.exact THEN filterExact(results, request.query) ELSE results)
    ELSE IF request.tool \in {"bulk_search_porkbun", "bulk_search_iwantmyname",
                              "bulk_search_domains"}
    THEN filterDomains(results, request.domains)
    ELSE results

\* a tool is called: the handler calls its drivers, each running to its first
\* await, and awaits their promises
Invoke(tool) ==
    /\ hpc = "idle"
    /\ \E query \in (IF tool \in SingleTools THEN QueriesOf(tool) ELSE {<<>>}),
          domains \in (IF tool \in BulkTools THEN BulkListsOf(tool) ELSE {<<>>}),
          exact \in (IF tool \in HasExact THEN BOOLEAN ELSE {FALSE}),
          whois \in (IF tool \in HasWhois THEN BOOLEAN ELSE {FALSE}) :
         LET called == Range(Searches(tool))
             iwCall == IF "iwantmyname" \notin called THEN IwOff
                       ELSE IF tool \in BulkTools THEN searchIwantmynameBulk(domains)
                       ELSE searchIwantmyname(query)
             pbCall == IF "porkbun" \notin called THEN PbOff
                       ELSE IF tool \in BulkTools THEN searchPorkbunBulk(domains)
                       ELSE searchPorkbun(query)
             nicCall == IF "nicchile" \notin called THEN NicOff
                        ELSE IF tool \in BulkTools THEN searchNicChileBulk(domains, whois)
                        ELSE searchNicChile(query, whois)
         IN /\ req' = [tool |-> tool, query |-> query, domains |-> domains,
                       exact |-> exact, whois |-> whois]
            /\ iw' = iwCall
            /\ pb' = pbCall
            /\ nic' = nicCall
            /\ settleOrder' =
                 (IF Settled(iwCall) THEN <<"iwantmyname">> ELSE <<>>)
                 \o (IF Settled(pbCall) THEN <<"porkbun">> ELSE <<>>)
                 \o (IF Settled(nicCall) THEN <<"nicchile">> ELSE <<>>)
    /\ hpc' = "awaiting"
    /\ UNCHANGED <<response, peer>>

\* the handler resumes from its await and returns the (filtered) outcomes
Respond ==
    /\ hpc = "awaiting"
    /\ PromiseAllSettled(Searches(req.tool))
    /\ IF \E i \in 1..Len(Searches(req.tool)) :
            CallOf(Searches(req.tool)[i]).pc = "rejected"
       THEN /\ hpc' = "failed"
            /\ response' = response
       ELSE /\ hpc' = "responded"
            /\ response' = PostFilter(req, PromiseAll(Searches(req.tool)))
    /\ UNCHANGED <<req, settleOrder, pb, iw, nic, peer>>

----------------------------------------------------------------------------
(* A second tool call served at the same time: the HTTP server of         *)
(* src/index.ts handles each POST in a callback of its own, so the handler *)
(* and the driver calls of one request run interleaved with those of       *)
(* another.  peer is the call that is already being served when the call   *)
(* of req arrives.                                                         *)

PeerIdle ==
    [hpc |-> "idle", req |-> NoRequest, response |-> <<>>,
     pb |-> PbOff, iw |-> IwOff]

\* the tools of Providers A and B, whose drivers hold a session
SessionTools ==
    {"search_porkbun", "bulk_search_porkbun", "search_iwantmyname",
     "bulk_search_iwantmyname"}

PeerStep(next) ==
    /\ peer' = next
    /\ UNCHANGED <<hpc, req, settleOrder, response, pb, iw, nic>>

\* the handler of the peer calls its driver, which runs to its first await
PeerInvoke ==
    /\ peer.hpc = "idle"
    /\ hpc = "idle"
    /\ \E tool \in SessionTools :
         LET query == IF tool \in SingleTools THEN ExampleAi ELSE <<>>
             domains == IF tool \in BulkTools THEN <<ExampleAi, SubExampleAi>>
                        ELSE <<>>
             called == Range(Searches(tool))
         IN PeerStep(
              [hpc |-> "awaiting",
               req |-> [tool |-> tool, query |-> query, domains |-> domains,
                        exact |-> FALSE, whois |-> FALSE],
               response |-> <<>>,
               pb |-> IF "porkbun" \notin called THEN PbOff
                      ELSE IF tool \in BulkTools THEN searchPorkbunBulk(domains)
                      ELSE searchPorkbun(query),
               iw |-> IF "iwantmyname" \notin called THEN IwOff
                      ELSE IF tool \in BulkTools THEN searchIwantmynameBulk(domains)
                      ELSE searchIwantmyname(query)])

PeerPbPageDone ==
    /\ peer.pb.pc = "page"
    /\ \E up \in PbPageResponses :
         PeerStep([peer EXCEPT !.pb = searchPorkbun_afterPage(@, up)])

PeerPbBulkInitDone ==
    /\ peer.pb.pc = "bulkinit"
    /\ \E up \in PbPageResponses :
         PeerStep([peer EXCEPT !.pb = searchPorkbunBulk_afterInit(@, up)])

PeerPbBulkPostDone ==
    /\ peer.pb.pc = "bulkpost"
    /\ \E up \in PbPageResponses :
         PeerStep([peer EXCEPT !.pb = searchPorkbunBulk_afterPost(@, up)])

PeerPbPollDone ==
    /\ peer.pb.pc = "polling"
    /\ \E up \in PbPollResponses :
         PeerStep([peer EXCEPT !.pb = pollForResults_afterFetch(@, up)])

PeerPbSleepDone ==
    /\ peer.pb.pc = "sleeping"
    /\ PeerStep([peer EXCEPT !.pb = pollForResults_afterSleep(@)])

PeerIwPrepareDone ==
    /\ peer.iw.pc = "prepare"
    /\ \E up \in IwPrepareResponses :
         PeerStep([peer EXCEPT !.iw = doSearch_afterPrepare(@, up)])

PeerIwChunkDone ==
    /\ peer.iw.pc = "check"
    /\ \E c \in 1..Len(peer.iw.chunks) :
         /\ peer.iw.chunkState[c] = "inflight"
         /\ \E up \in IwCheckResponses(peer.iw.chunks[c], peer.iw.results[1].domain) :
              PeerStep([peer EXCEPT !.iw = checkAvailability_afterFetch(@, c, up)])

\* the driver call of the peer's handler
PeerCall == IF Searches(peer.req.tool) = <<"porkbun">> THEN peer.pb ELSE peer.iw

\* the handler of the peer resumes from its await
PeerRespond ==
    /\ peer.hpc = "awaiting"
    /\ Settled(PeerCall)
    /\ PeerStep(
         IF PeerCall.pc = "rejected" THEN [peer EXCEPT !.hpc = "failed"]
         ELSE [peer EXCEPT !.hpc = "responded",
                           !.response = PostFilter(peer.req, <<PeerCall.outcome>>)])

\* the tool call of req arrives while the peer is being served
ConcurrentInvoke ==
    /\ Concurrent
    /\ \E tool \in SessionTools : Invoke(tool)

----------------------------------------------------------------------------
(* Specifications *)

Init ==
    /\ hpc = "idle"
    /\ req = NoRequest
    /\ settleOrder = <<>>
    /\ response = <<>>
    /\ pb = PbOff
    /\ iw = IwOff
    /\ nic = NicOff
    /\ peer = PeerIdle

PorkbunNext ==
    \/ \E tool \in {"search_porkbun", "bulk_search_porkbun"} : Invoke(tool)
    \/ PbPageDone \/ PbBulkInitDone \/ PbBulkPostDone \/ PbPollDone \/ PbSleepDone
    \/ Respond

IwantmynameNext ==
    \/ \E tool \in {"search_iwantmyname", "bulk_search_iwantmyname"} : Invoke(tool)
    \/ IwPrepareDone \/ IwChunkDone
    \/ Respond

NicChileNext ==
    \/ \E tool \in {"search_nicchile", "bulk_search_nicchile"} : Invoke(tool)
    \/ NicSingleDone \/ NicFetchDone \/ NicDelayDone
    \/ Respond

CombinedNext ==
    \/ \E tool \in {"search_domains", "bulk_search_domains"} : Invoke(tool)
    \/ PbPageDone \/ PbBulkInitDone \/ PbBulkPostDone \/ PbPollDone \/ PbSleepDone
    \/ IwPrepareDone \/ IwChunkDone
    \/ NicSingleDone \/ NicFetchDone \/ NicDelayDone
    \/ Respond

Next ==
    \/ \E tool \in Tools : Invoke(tool)
    \/ PbPageDone \/ PbBulkInitDone \/ PbBulkPostDone \/ PbPollDone \/ PbSleepDone
    \/ IwPrepareDone \/ IwChunkDone
    \/ NicSingleDone \/ NicFetchDone \/ NicDelayDone
    \/ Respond

SessionsNext ==
    \/ PeerInvoke
    \/ PeerPbPageDone \/ PeerPbBulkInitDone \/ PeerPbBulkPostDone
    \/ PeerPbPollDone \/ PeerPbSleepDone
    \/ PeerIwPrepareDone \/ PeerIwChunkDone
    \/ PeerRespond
    \/ ConcurrentInvoke
    \/ PbPageDone \/ PbBulkInitDone \/ PbBulkPostDone \/ PbPollDone \/ PbSleepDone
    \/ IwPrepareDone \/ IwChunkDone
    \/ Respond

\* one call of one of the Provider A tools
SpecPorkbun == Init /\ [][PorkbunNext]_vars
\* one call of one of the Provider B tools
SpecIwantmyname == Init /\ [][IwantmynameNext]_vars
\* one call of one of the Provider C tools
SpecNicChile == Init /\ [][NicChileNext]_vars
\* one call of one of the combined tools
SpecCombined == Init /\ [][CombinedNext]_vars
\* one call of any tool
Spec == Init /\ [][Next]_vars
\* two calls of tools of Providers A and B, served at the same time
SpecSessions == Init /\ [][SessionsNext]_vars
\* one call of one of the Provider A tools, every request of which is
\* answered, fails or times out (AbortSignal.timeout), and every timer of
\* which fires
SpecPorkbunFair ==
    /\ SpecPorkbun
    /\ WF_vars(PbPageDone \/ PbBulkInitDone \/ PbBulkPostDone
                   \/ PbPollDone \/ PbSleepDone)

----------------------------------------------------------------------------
(* Claims C1..C10 *)

\* the outcome a driver call returned
OutcomeOf(provider) == CallOf(provider).outcome

\* the names the post-filter of the request keeps; none when it has no filter
FilterApplies ==
    \/ req.tool \in HasExact /\ req.exact
    \/ req.tool \in {"bulk_search_porkbun", "bulk_search_iwantmyname",
                     "bulk_search_domains"}
Targets ==
    IF req.tool \in SingleTools THEN {toLowerCase(trim(req.query))}
    ELSE {toLowerCase(trim(req.domains[i])) : i \in 1..Len(req.domains)}

\* C1: a combined query or combined bulk query returns as many provider
\* outcomes as providers were requested, and they appear in the order of the
\* request (iwantmyname, porkbun, nicchile), in whatever order the three
\* driver calls completed.
C1_OutcomesInRequestOrder ==
    hpc = "responded" =>
        /\ Len(response) = Len(Providers)
        /\ \A i \in 1..Len(Providers) : response[i].provider = Providers[i]

\* the three calls completed in the reverse of the request order
C1_Witness ==
    /\ hpc = "responded"
    /\ req.tool \in {"search_domains", "bulk_search_domains"}
    /\ settleOrder = <<"nicchile", "porkbun", "iwantmyname">>
    /\ Len(response) = 3

\* C2: an outcome a driver operation returned, and an outcome of a response
\* after filterExact or filterDomains, never has both an error and a
\* non-empty result list: error present implies results empty.
C2_ErrorMeansNoResults ==
    /\ \A i \in 1..Len(Providers) :
         OutcomeOf(Providers[i]).error # Null
             => OutcomeOf(Providers[i]).results = <<>>
    /\ hpc = "responded" =>
         \A i \in 1..Len(response) :
             response[i].error # Null => response[i].results = <<>>

\* Provider B had parsed results when a secondary-check request failed, and
\* the filtered response carries the error alone
C2_Witness ==
    /\ hpc = "responded"
    /\ req.tool = "bulk_search_iwantmyname"
    /\ iw.results # <<>>
    /\ \E c \in 1..Len(iw.chunkState) : iw.chunkState[c] = "throw"
    /\ response[1].error # Null
    /\ response[1].results = <<>>

\* C3: no driver operation throws or rejects: whatever the upstream does
\* (non-success status, network failure, timeout, missing token or cookie,
\* malformed body, upstream error message), no call ends rejected and no
\* handler fails on its await.
C3_NoDriverRejects ==
    /\ \A i \in 1..Len(Providers) : CallOf(Providers[i]).pc # "rejected"
    /\ hpc # "failed"

\* a fetch of the bulk flow of Provider A threw while polling, and the call
\* completed with an outcome
C3_Witness ==
    /\ pb.pc = "done"
    /\ pb.bulk
    /\ pb.polls > 0
    /\ pb.last.kind = "throw"
    /\ pb.outcome.error # Null

\* C4: in a combined query or combined bulk query the failure of one provider
\* does not keep the outcomes of the others from being reported: the response
\* has one outcome per provider, each with the error its driver returned and
\* with the results its driver returned (those the post-filter keeps).
C4_FailureIsolated ==
    /\ hpc # "failed"
    /\ hpc = "responded" =>
         /\ DOMAIN response = 1..Len(Providers)
         /\ \A i \in 1..Len(Providers) :
              LET outcome == OutcomeOf(Providers[i])
                  kept(d) == toLowerCase(d.domain) \in Targets
              IN /\ response[i].provider = Providers[i]
                 /\ response[i].error = outcome.error
                 /\ response[i].results =
                      IF FilterApplies THEN SelectSeq(outcome.results, kept)
                      ELSE outcome.results

\* one provider failed and another one's results are in the response
C4_Witness ==
    /\ hpc = "responded"
    /\ req.tool \in {"search_domains", "bulk_search_domains"}
    /\ \E i, j \in 1..Len(response) :
         /\ response[i].error # Null
         /\ response[j].error = Null
         /\ response[j].results # <<>>

\* the failures a driver absorbs: a non-success status of a status-check
\* attempt of Provider A (retried), a non-success status of a secondary-check
\* chunk of Provider B (skipped), a failed request of Provider C bulk
\* (fallback record)
Absorbed ==
    {<<"status", "poll">>, <<"status", "check">>}
    \cup {<<class, "bulk-lookup">> : class \in {"status", "network", "timeout"}}

\* C5 as stated: every failure of the taxonomy inside a driver operation ends
\* in an outcome with an error and an empty result list.
C5_EveryFailureIsAnError ==
    \A i \in 1..Len(Providers) :
        LET call == CallOf(Providers[i]) IN
        call.pc = "done" /\ call.failures # {}
            => call.outcome.error # Null /\ call.outcome.results = <<>>

\* C5, amended: every failure of the taxonomy inside a driver operation ends
\* the call with an outcome that has an error and an empty result list, except
\* the failures a driver absorbs; a call that met absorbed failures only
\* completes with the error absent.
C5_FatalFailureIsAnError ==
    \A i \in 1..Len(Providers) :
        LET call == CallOf(Providers[i]) IN
        /\ call.failures \ Absorbed # {}
             => /\ call.pc = "done"
                /\ call.outcome.error # Null
                /\ call.outcome.results = <<>>
        /\ call.pc = "done" /\ call.failures # {} /\ call.failures \subseteq Absorbed
             => call.outcome.error = Null

\* Provider A absorbed a non-success status while polling and then failed on
\* a network error
C5_Witness ==
    /\ pb.pc = "done"
    /\ {<<"status", "poll">>, <<"network", "poll">>} \subseteq pb.failures
    /\ pb.outcome.error # Null
    /\ pb.outcome.results = <<>>

\* the items of a status-check response
ItemsOf(up) == IF up.kind = "ok" /\ up.results.has THEN up.results.v ELSE <<>>

\* the call of Provider A returned from the last attempt: N requests were
\* issued and the last one was answered
FinalAttempt ==
    /\ pb.pc = "done"
    /\ pb.polls = MAX_ATTEMPTS
    /\ pb.last.kind = "ok"

\* C6: when every item of every response is PENDING on the first N-1 attempts
\* (N = MAX_ATTEMPTS) the driver keeps polling up to the last attempt, and
\* when the response of the last attempt has no PENDING item the outcome has
\* the error absent and holds every item of that response, resolved.
C6_ResolvedOnFinalAttempt ==
    /\ pb.pc = "done" /\ hasPending(ItemsOf(pb.last)) => pb.polls = MAX_ATTEMPTS
    /\ FinalAttempt /\ pb.onlyPending /\ ~hasPending(ItemsOf(pb.last))
         => /\ pb.outcome.error = Null
            /\ pb.sleeps >= MAX_ATTEMPTS - 1
            /\ Len(pb.outcome.results) = Len(ItemsOf(pb.last))
            /\ \A i \in 1..Len(ItemsOf(pb.last)) :
                 /\ pb.outcome.results[i].domain = ItemsOf(pb.last)[i].domain
                 /\ pb.outcome.results[i].available
                      = (ItemsOf(pb.last)[i].result = "AVAILABLE")

\* nine all-PENDING responses, then a response with two resolved items
C6_Witness ==
    /\ FinalAttempt
    /\ pb.onlyPending
    /\ Len(ItemsOf(pb.last)) = 2
    /\ ~hasPending(ItemsOf(pb.last))
    /\ Len(pb.outcome.results) = 2
    /\ pb.outcome.results[1].available
    /\ ~pb.outcome.results[2].available

\* C7 as stated: an item still PENDING in the response of the last attempt is
\* in the outcome as a result with available = false and no price.
C7_PendingReportedUnavailable ==
    FinalAttempt =>
        \A i \in 1..Len(ItemsOf(pb.last)) :
            ItemsOf(pb.last)[i].result = "PENDING"
                => \E k \in 1..Len(pb.outcome.results) :
                     /\ pb.outcome.results[k].domain = ItemsOf(pb.last)[i].domain
                     /\ ~pb.outcome.results[k].available
                     /\ pb.outcome.results[k].price = NoPrice

\* C7, amended: an item still PENDING in the response of the last attempt is
\* left out of the outcome: the outcome has the error absent and holds the
\* items of that response that are not PENDING, in their order, and nothing
\* else.
C7_PendingLeftOut ==
    FinalAttempt /\ hasPending(ItemsOf(pb.last)) =>
        LET resolved(r) == r.result # "PENDING"
            rest == SelectSeq(ItemsOf(pb.last), resolved)
        IN /\ pb.outcome.error = Null
           /\ Len(pb.outcome.results) = Len(rest)
           /\ \A k \in 1..Len(rest) :
                /\ pb.outcome.results[k].domain = rest[k].domain
                /\ pb.outcome.results[k].available = (rest[k].result = "AVAILABLE")

\* the last response has a PENDING item and a resolved one; the outcome holds
\* the resolved one only
C7_Witness ==
    /\ FinalAttempt
    /\ Len(ItemsOf(pb.last)) = 2
    /\ hasPending(ItemsOf(pb.last))
    /\ Len(pb.outcome.results) = 1

\* a status-check response that is a non-success status or has no items
NothingYet(up) ==
    \/ up.kind = "status"
    \/ up.kind = "ok" /\ ItemsOf(up) = <<>>

\* C8: when every attempt yields a non-success status or a response with no
\* items, the driver returns an outcome with an empty result list and the
\* error absent.
C8_ExhaustedIsEmptySuccess ==
    (pb.pc = "done" /\ pb.polls = MAX_ATTEMPTS /\ pb.onlyEmpty
        /\ NothingYet(pb.last))
    => /\ pb.outcome = ProviderSearchResult("porkbun", <<>>, Null)
       /\ pb.attempt = MAX_ATTEMPTS
       /\ pb.sleeps = MAX_ATTEMPTS

\* all the attempts were used, one of them on a non-success status
C8_Witness ==
    /\ pb.pc = "done"
    /\ pb.polls = MAX_ATTEMPTS
    /\ pb.onlyEmpty
    /\ NothingYet(pb.last)
    /\ <<"status", "poll">> \in pb.failures
    /\ pb.outcome.error = Null

\* the response a session is extracted from lacks an identifier or the
\* csrf_pb cookie: the search page in the single flow; in the bulk flow the
\* search page for the cookie and the bulk response for the identifiers
SessionMissing ==
    IF pb.bulk
    THEN \/ pb.page.kind = "ok" /\ CsrfOf(extractCookies(pb.page.setCookie)) = ""
         \/ /\ pb.post.kind = "ok"
            /\ (pb.post.html.checkId = Absent \/ pb.post.html.searchHash = Absent)
    ELSE /\ pb.page.kind = "ok"
         /\ \/ pb.page.html.checkId = Absent
            \/ pb.page.html.searchHash = Absent
            \/ CsrfOf(extractCookies(pb.page.setCookie)) = ""

\* C9: when an identifier (checkId, searchHash) or the csrf_pb cookie is
\* absent from the session-acquisition response, in the single and in the
\* bulk flow, the outcome has an error and empty results and no status-check
\* request is issued; a status-check request is issued only with the values
\* of an acquired session.
C9_NoPollWithoutSession ==
    /\ SessionMissing
         => /\ pb.pc = "done"
            /\ pb.outcome.error # Null
            /\ pb.outcome.results = <<>>
            /\ pb.polls = 0
    /\ pb.polls > 0
         => /\ pb.session.acquired
            /\ pb.pollReq = pb.session
            /\ pb.session.checkId # Absent
            /\ pb.session.searchHash # Absent
            /\ CsrfOf(extractCookies(pb.page.setCookie)) # ""

\* the search page of the single flow has both identifiers and no csrf_pb
\* cookie
C9_Witness ==
    /\ pb.pc = "done"
    /\ ~pb.bulk
    /\ pb.page.kind = "ok"
    /\ pb.page.html.checkId # Absent
    /\ pb.page.html.searchHash # Absent
    /\ CsrfOf(extractCookies(pb.page.setCookie)) = ""
    /\ pb.outcome.error # Null
    /\ pb.polls = 0

RECURSIVE NamesRequested(_)
\* the domain names of the secondary-check requests, in the order of the
\* requests
NamesRequested(requests) ==
    IF requests = <<>> THEN <<>>
    ELSE Head(requests).domainNames \o NamesRequested(Tail(requests))

\* C10: for n needs-secondary-check domains the driver issues ceil(n / 30)
\* secondary-check requests, none with more than 30 domain names, and the
\* chunks in order concatenate to the pending list; it issues none when n = 0.
C10_ChunkedSecondaryCheck ==
    LET n == Len(iw.pendingDomains) IN
    /\ Len(iw.requests) = (n + 29) \div 30
    /\ \A c \in 1..Len(iw.requests) :
         /\ Len(iw.requests[c].domainNames) >= 1
         /\ Len(iw.requests[c].domainNames) <= 30
    /\ NamesRequested(iw.requests) = iw.pendingDomains
    /\ n = 0 => iw.requests = <<>>

\* 45 pending domains: two requests, of 30 and of 15 names
C10_Witness ==
    /\ iw.pc = "check"
    /\ Len(iw.pendingDomains) = 45
    /\ Len(iw.requests) = 2
    /\ Len(iw.requests[1].domainNames) = 30
    /\ Len(iw.requests[2].domainNames) = 15

----------------------------------------------------------------------------
(* Claims C11..C20 *)

\* a secondary-check request of Provider B failed: non-success status, or a
\* fetch that threw (network error, timeout)
ChunkFailed(c) == iw.chunkState[c] \in {"status", "throw"}

\* C11 as stated: when a secondary-check chunk request fails (non-success
\* status, network error or timeout) the query does not fail: the outcome has
\* the error absent, a domain without a secondary status keeps the
\* availability parsed from the prepare data, and a domain with a secondary
\* status from a chunk that succeeded gets the availability of that status.
C11_FailedChunkIsSkipped ==
    (iw.pc = "done" /\ \E c \in 1..Len(iw.chunkState) : ChunkFailed(c))
    => /\ iw.outcome.error = Null
       /\ Len(iw.outcome.results) = Len(iw.prepared)
       /\ \A i \in 1..Len(iw.prepared) :
            LET d == iw.prepared[i].domain IN
            /\ iw.outcome.results[i].domain = d
            /\ iw.outcome.results[i].available =
                 IF d \in DOMAIN iw.allResults
                 THEN iw.allResults[d] \in {STATUS_AVAILABLE, STATUS_PREREGISTRATION}
                 ELSE iw.prepared[i].available

\* the request of one of two chunks threw, and the query failed as a whole
C11_Witness ==
    /\ iw.pc = "done"
    /\ Len(iw.chunkState) = 2
    /\ \E c \in 1..2 : iw.chunkState[c] = "throw"
    /\ iw.prepared # <<>>
    /\ iw.outcome.error # Null
    /\ iw.outcome.results = <<>>

\* C12: Provider C bulk performs, for a list of N >= 1 domains, exactly N-1
\* delays: one after every iteration except the last, whether the request of
\* the iteration succeeded, returned a non-success status or threw.
C12_BulkThrottle ==
    nic.bulk =>
        /\ nic.pc = "fetching" => nic.delays = nic.i
        /\ nic.pc = "delaying"
             => /\ nic.delays = nic.i + 1
                /\ nic.i < Len(nic.domains) - 1
                /\ Len(nic.kinds) = nic.i + 1
        /\ nic.pc = "done" /\ Len(nic.domains) >= 1
             => nic.delays = Len(nic.domains) - 1

\* three domains, requests that threw, failed and succeeded, two delays
C12_Witness ==
    /\ nic.bulk
    /\ nic.pc = "done"
    /\ Len(nic.domains) = 3
    /\ {nic.kinds[k] : k \in 1..Len(nic.kinds)} = {"throw", "status", "ok"}
    /\ nic.delays = 2

\* C13: Provider C bulk is sequential and in input order: at most one request
\* of the call is in flight, a request starts only when the earlier ones have
\* completed and no delay is running, and the i-th result of the outcome is
\* the result for the i-th input domain.
C13_BulkSequentialInOrder ==
    /\ [](nic.bulk =>
            /\ nic.inflight <= 1
            /\ nic.pc = "fetching"
                 => /\ nic.inflight = 1
                    /\ Len(nic.results) = nic.i
                    /\ nic.issued <= nic.i + 1
            /\ nic.pc = "done"
                 => /\ Len(nic.outcome.results) = Len(nic.domains)
                    /\ \A k \in 1..Len(nic.domains) :
                         nic.outcome.results[k].domain
                             = normalizeDomain(nic.domains[k]))
    /\ [][nic.bulk /\ nic'.issued > nic.issued
             => /\ nic.pc = "delaying"
                /\ nic.inflight = 0
                /\ nic'.issued = nic.issued + 1]_vars

\* three domains, not all the same, were looked up one after the other
C13_Witness ==
    /\ nic.bulk
    /\ nic.pc = "done"
    /\ nic.issued = 3
    /\ nic.delays = 2
    /\ Len(nic.outcome.results) = 3
    /\ nic.outcome.results[1].domain # nic.outcome.results[3].domain

\* C14: in Provider C bulk a domain whose request threw or returned a
\* non-success status gets a fallback record (available = false, no price, no
\* WHOIS); the remaining domains are still looked up, and the outcome has the
\* error absent and one result per input domain.
C14_BulkFallback ==
    nic.bulk /\ nic.pc = "done" =>
        /\ nic.outcome.error = Null
        /\ Len(nic.outcome.results) = Len(nic.domains)
        /\ Len(nic.kinds) = Len(nic.domains)
        /\ \A k \in 1..Len(nic.domains) :
             nic.kinds[k] \in {"throw", "status"}
                 => /\ nic.outcome.results[k].domain = normalizeDomain(nic.domains[k])
                    /\ ~nic.outcome.results[k].available
                    /\ nic.outcome.results[k].price = NoPrice
                    /\ nic.outcome.results[k].whois = WhoisUndefined

\* the first request threw, the second one found the domain available
C14_Witness ==
    /\ nic.bulk
    /\ nic.pc = "done"
    /\ Len(nic.domains) >= 2
    /\ nic.kinds[1] = "throw"
    /\ <<"network", "bulk-lookup">> \in nic.failures
    /\ nic.kinds[2] = "ok"
    /\ nic.outcome.results[2].available
    /\ ~nic.outcome.results[1].available

\* the lookups of Provider C that returned a page body, and the result
\* parseDomainResult made of the k-th one
PagesParsed == {k \in 1..Len(nic.kinds) : nic.kinds[k] = "ok"}
ResultOfPage(k) == IF nic.bulk THEN nic.results[k] ELSE nic.outcome.results[1]

\* C15: a page body with the "domain does not exist" marker yields a result
\* with available = true and no WHOIS record, whether or not the caller
\* asked for WHOIS data.
C15_NotExistIsAvailable ==
    \A k \in PagesParsed :
        includes(nic.pages[k], MarkNotExist)
            => /\ ResultOfPage(k).available
               /\ ResultOfPage(k).whois = WhoisUndefined
               /\ ResultOfPage(k).price = PRICE_USD

\* the caller asked for WHOIS data and the body has the marker and a table
C15_Witness ==
    /\ nic.whois
    /\ nic.pc = "done"
    /\ \E k \in PagesParsed :
         /\ includes(nic.pages[k], MarkNotExist)
         /\ nic.pages[k].table.present
         /\ ResultOfPage(k).available
         /\ ResultOfPage(k).whois = WhoisUndefined

\* C16 as stated: a page body with the "pending deletion" marker yields a
\* result with available = false, the status pending deletion and whois
\* null, also when the caller asked for WHOIS data.
C16_PendingDeletionIsTaken ==
    \A k \in PagesParsed :
        includes(nic.pages[k], MarkPendingDeletion)
            => /\ ~ResultOfPage(k).available
               /\ ResultOfPage(k).status = "pending_deletion"
               /\ ResultOfPage(k).whois = WhoisNull

\* a body with both markers: the result is available, with a price, and has
\* the status pending deletion
C16_Witness ==
    \E k \in PagesParsed :
        /\ includes(nic.pages[k], MarkPendingDeletion)
        /\ includes(nic.pages[k], MarkNotExist)
        /\ ResultOfPage(k).available
        /\ ResultOfPage(k).price = PRICE_USD
        /\ ResultOfPage(k).whois = WhoisUndefined

\* the results of Provider C: those pushed so far and those of the outcome
NicResults == Range(nic.results) \cup Range(nic.outcome.results)

\* C17 as stated: no result of Provider C has both the status pending
\* deletion and available = true.
C17_PendingDeletionExcludesAvailable ==
    \A r \in NicResults : ~(r.status = "pending_deletion" /\ r.available)

\* a result of a reported outcome is available and pending deletion at once
C17_Witness ==
    /\ hpc = "responded"
    /\ \E i \in 1..Len(response) : \E r \in Range(response[i].results) :
         r.provider = "nicchile" /\ r.status = "pending_deletion" /\ r.available

\* every DomainResult a driver has produced
AllResults ==
    NicResults \cup Range(pb.outcome.results) \cup Range(iw.results)
    \cup Range(iw.outcome.results)
    \cup UNION {Range(response[i].results) : i \in 1..Len(response)}

\* C18: a DomainResult has a WHOIS record only if the domain is not available
\* and the caller asked for WHOIS data; only Provider C makes one, and only
\* for a domain that is not pending deletion.
C18_WhoisOnlyWhenAsked ==
    \A r \in AllResults :
        r.whois \notin {WhoisUndefined, WhoisNull}
            => /\ ~r.available
               /\ req.whois
               /\ r.provider = "nicchile"
               /\ r.status # "pending_deletion"

\* a taken domain is reported with its WHOIS record
C18_Witness ==
    /\ hpc = "responded"
    /\ req.whois
    /\ \E r \in Range(response[1].results) :
         /\ r.whois \notin {WhoisUndefined, WhoisNull}
         /\ r.whois.registrant = "ACME"
         /\ Len(r.whois.nameservers) = 2
         /\ ~r.available

\* the outcomes the handler of the request got from its drivers, in order
Outcomes == [i \in 1..Len(Searches(req.tool)) |-> OutcomeOf(Searches(req.tool)[i])]

\* C19: filterExact keeps, per provider outcome, exactly the results whose
\* domain, lower-cased, equals the trimmed lower-cased query, in their order,
\* and leaves provider and error alone; with the query " Example.AI " a result
\* for example.ai is kept and one for sub.example.ai is not.
C19_FilterExact ==
    hpc = "responded" /\ req.tool \in HasExact =>
        LET target == toLowerCase(trim(req.query))
            matches(d) == toLowerCase(d.domain) = target
        IN /\ Len(response) = Len(Outcomes)
           /\ ~req.exact => response = Outcomes
           /\ req.exact =>
                \A i \in 1..Len(Outcomes) :
                    /\ response[i].provider = Outcomes[i].provider
                    /\ response[i].error = Outcomes[i].error
                    /\ response[i].results = SelectSeq(Outcomes[i].results, matches)
                    /\ req.query = ExampleAiPadded =>
                         /\ \A r \in Range(response[i].results) :
                              r.domain \in {ExampleAi, ExampleAiMixed}
                         /\ \A r \in Range(Outcomes[i].results) :
                              r.domain = ExampleAi => r \in Range(response[i].results)

\* the outcome has results for example.ai and sub.example.ai; the response to
\* the exact query " Example.AI " has the one for example.ai only
C19_Witness ==
    /\ hpc = "responded"
    /\ req.exact
    /\ req.query = ExampleAiPadded
    /\ {r.domain : r \in Range(Outcomes[1].results)} = {ExampleAi, SubExampleAi}
    /\ {r.domain : r \in Range(response[1].results)} = {ExampleAi}

\* C20: filterDomains keeps, per provider outcome, exactly the results whose
\* lower-cased domain is one of the trimmed lower-cased requested domains, in
\* their order; the bulk tools of Providers A and B and the combined bulk
\* tool apply it, whichever of the requested domains a result matches.
C20_FilterDomains ==
    (hpc = "responded"
        /\ req.tool \in {"bulk_search_porkbun", "bulk_search_iwantmyname",
                         "bulk_search_domains"}) =>
        LET requested(d) ==
                \E k \in 1..Len(req.domains) :
                    toLowerCase(d.domain) = toLowerCase(trim(req.domains[k]))
        IN /\ Len(response) = Len(Outcomes)
           /\ \A i \in 1..Len(Outcomes) :
                /\ response[i].provider = Outcomes[i].provider
                /\ response[i].error = Outcomes[i].error
                /\ response[i].results = SelectSeq(Outcomes[i].results, requested)

\* a result for the third requested domain is kept, one for a domain that
\* was not requested is dropped
C20_Witness ==
    /\ hpc = "responded"
    /\ req.tool = "bulk_search_iwantmyname"
    /\ Len(req.domains) = 3
    /\ Len(Outcomes[1].results) = 2
    /\ Len(response[1].results) = 1
    /\ response[1].results[1].domain = toLowerCase(trim(req.domains[3]))
    /\ response[1].results[1].domain # toLowerCase(trim(req.domains[1]))

----------------------------------------------------------------------------
(* Claims C21..C30 *)

\* an optional upstream price string that the code takes as reported
Reported(o) == o.has /\ o.v # <<>>

AllDigits(s) == s # <<>> /\ \A i \in 1..Len(s) : IsDigit(s[i])

\* the items of the response Provider A parsed its results from, and the
\* items of the prepare data Provider B pushed a result for
PbParsedItems ==
    LET resolved(r) == r.result # "PENDING" IN SelectSeq(pb.last.results.v, resolved)
IwParsedItems ==
    LET named(item) == item.domain # <<>> IN SelectSeq(iw.data, named)

\* C21: Provider A turns a registration price of c integer cents into c/100
\* (c hundredths: "1999" is 19.99), and the renewal price of a Provider A or
\* Provider B result equals its registration price when the upstream reports
\* no renewal price.
C21_PriceNormalization ==
    /\ (pb.pc = "done" /\ pb.outcome.results # <<>>) =>
         /\ Len(pb.outcome.results) = Len(PbParsedItems)
         /\ \A k \in 1..Len(PbParsedItems) :
              LET item == PbParsedItems[k]
                  cents == IF item.regPrice.has THEN item.regPrice ELSE item.price
                  price == pb.outcome.results[k].price
              IN /\ (Reported(cents) /\ AllDigits(cents.v)) =>
                       /\ ~price.null
                       /\ price.registration = Num(DigitsPrefix(cents.v, 0))
                       /\ cents.v = <<"1","9","9","9">> =>
                            price.registration = [nan |-> FALSE, v |-> 1999]
                 /\ (~price.null /\ ~Reported(item.renewPrice)) =>
                       price.renewal = price.registration
    /\ (iw.pc = "done" /\ iw.outcome.error = Null) =>
         /\ Len(iw.outcome.results) = Len(IwParsedItems)
         /\ \A k \in 1..Len(IwParsedItems) :
              LET price == iw.outcome.results[k].price IN
              (~price.null /\ ~Reported(IwParsedItems[k].renewalPrice)) =>
                  price.renewal = price.registration

\* Provider A parsed "1999" with no renewal price into 19.99 and 19.99, and
\* Provider B a price with no renewal price into twice the same amount
C21_Witness ==
    /\ pb.pc = "done"
    /\ \E k \in 1..Len(pb.outcome.results) :
         /\ PbParsedItems[k] = PbAvailable
         /\ pb.outcome.results[k].price = Price(Num(1999), Num(1999))
    /\ iw.pc = "done"
    /\ \E k \in 1..Len(iw.outcome.results) :
         /\ IwParsedItems[k] = IwItemAvailable
         /\ iw.outcome.results[k].price = Price(Num(1250), Num(1250))

\* a JavaScript number that is zero or more (NaN is not)
NonNegative(n) == ~n.nan /\ n.v >= 0

\* C22 as stated: the Price of every DomainResult of every driver has a
\* non-negative registration value and a non-negative renewal value.
C22_PricesNonNegative ==
    \A r \in AllResults :
        ~r.price.null =>
            NonNegative(r.price.registration) /\ NonNegative(r.price.renewal)

\* a reported Provider A result has a registration price below zero and a
\* renewal price that is not a number
C22_Witness ==
    /\ hpc = "responded"
    /\ \E i \in 1..Len(response) : \E r \in Range(response[i].results) :
         /\ r.provider = "porkbun"
         /\ ~r.price.null
         /\ ~r.price.registration.nan
         /\ r.price.registration.v < 0
         /\ r.price.renewal.nan

\* the session a Provider A call obtained from its own responses: the ids of
\* its search page (of its bulk search response, for a bulk call), the
\* csrf_pb cookie and the cookies of the responses it received
OwnSession(call) ==
    LET pageCookies == extractCookies(call.page.setCookie)
        cookies == IF call.bulk
                   THEN MapSetAll(pageCookies, extractCookies(call.post.setCookie))
                   ELSE pageCookies
        html == IF call.bulk THEN call.post.html ELSE call.page.html
    IN [acquired |-> TRUE, checkId |-> html.checkId, searchHash |-> html.searchHash,
        csrfPb |-> MapGet(cookies, "csrf_pb"), cookieHeader |-> JoinCookies(cookies)]

\* what the status-check requests of a Provider A call carry
PbSendsOwn(call) == call.polls > 0 => call.pollReq = OwnSession(call)

\* what the secondary-check requests of a Provider B call carry
IwSendsOwn(call) ==
    \A c \in 1..Len(call.requests) :
        call.requests[c].Cookie = JoinCookies(call.setCookie)

\* the session values of the four driver calls that hold a session
SessionValues ==
    << <<pb.session, pb.pollReq>>, <<peer.pb.session, peer.pb.pollReq>>,
       <<iw.cookieHeader, iw.requests>>, <<peer.iw.cookieHeader, peer.iw.requests>> >>

\* C23: whatever the interleaving of the driver calls of two tool calls served
\* at once, the ids, csrf token and cookies in a status-check or
\* secondary-check request are those the call got from its own responses, and
\* a step that writes the session values of one call leaves those of every
\* other call as they are.
C23_SessionsAreOwn ==
    /\ [](PbSendsOwn(pb) /\ PbSendsOwn(peer.pb)
          /\ IwSendsOwn(iw) /\ IwSendsOwn(peer.iw))
    /\ [][Cardinality({k \in 1..4 : SessionValues'[k] # SessionValues[k]}) <= 1]_vars

\* two Provider A calls with different sessions have each polled twice, and
\* each request carried the session of its own call
C23_Witness ==
    /\ pb.polls >= 2
    /\ peer.pb.polls >= 2
    /\ pb.pc = "polling"
    /\ peer.pb.pc = "polling"
    /\ pb.pollReq.checkId # peer.pb.pollReq.checkId
    /\ pb.pollReq.csrfPb # peer.pb.pollReq.csrfPb
    /\ pb.pollReq.cookieHeader # peer.pb.pollReq.cookieHeader

\* the driver calls of the tool being served
Called == {Searches(req.tool)[i] : i \in 1..Len(Searches(req.tool))}

\* the step in which the handler calls its drivers
Starts == hpc = "idle" /\ hpc' = "awaiting"

\* a driver call that has issued no request
NoRequestIssued(provider) ==
    IF provider = "porkbun" THEN pb.page.kind = "none" /\ pb.polls = 0
    ELSE IF provider = "nicchile" THEN nic.issued = 0
    ELSE iw.prepare = "none"

\* the response holds the outcome of every called driver, each of them returned
ResponseIsComplete ==
    hpc = "responded" =>
        /\ Len(response) = Len(Searches(req.tool))
        /\ \A i \in 1..Len(response) :
             /\ CallOf(Searches(req.tool)[i]).pc = "done"
             /\ response[i].provider = Searches(req.tool)[i]

\* C24 as stated: when the handler has started its driver calls none of them
\* has completed yet, and the response is made after every one has completed.
C24_NoneCompletesBeforeAllStarted ==
    /\ []ResponseIsComplete
    /\ [][Starts => \A p \in Called' : ~Settled(CallOf(p))']_vars

\* C24: the handler starts every driver call in one step, before the response
\* to any request of any of them arrives; a call that has completed by then has
\* issued no request; and the response is made only after every call has
\* completed, with one outcome for each.
C24_AllStartedThenAllAwaited ==
    /\ []ResponseIsComplete
    /\ []((hpc = "idle") => (pb.pc = "off" /\ iw.pc = "off" /\ nic.pc = "off"))
    /\ [][Starts => \A p \in Called' :
                        /\ CallOf(p)'.pc # "off"
                        /\ Settled(CallOf(p))' => NoRequestIssued(p)']_vars
    /\ [][hpc = "awaiting" /\ hpc' # "awaiting" =>
              \A p \in Called : Settled(CallOf(p))]_vars

\* a combined query was answered after its three drivers returned, Provider A
\* having completed first and Provider C last
C24_Witness ==
    /\ hpc = "responded"
    /\ req.tool = "search_domains"
    /\ settleOrder = <<"porkbun", "iwantmyname", "nicchile">>
    /\ Len(response) = 3
    /\ pb.polls > 0

\* a combined query for a name that cannot be URL-encoded: Providers A and C
\* have completed when the handler starts to wait
C24_SettledAtStart ==
    /\ hpc = "awaiting"
    /\ req.tool = "search_domains"
    /\ pb.pc = "done"
    /\ nic.pc = "done"
    /\ iw.pc = "prepare"

\* C25 as stated: the price of every Provider C result is the fixed rate.
C25_EveryResultHasTheRate ==
    \A r \in NicResults : r.price = PRICE_USD

\* C25: a Provider C result has a price exactly when it is reported
\* available, and that price is the fixed rate (registration 11.5, renewal
\* 11.5, USD) whatever else the page holds; a taken domain, one pending
\* deletion and a fallback record have no price.
C25_PriceIsTheRateWhenAvailable ==
    /\ \A r \in NicResults :
         /\ r.price.null <=> ~r.available
         /\ ~r.price.null =>
              r.price = [null |-> FALSE, registration |-> Num(1150),
                         renewal |-> Num(1150), currency |-> "USD"]
    /\ \A k \in PagesParsed :
         ResultOfPage(k).price.null <=> ~includes(nic.pages[k], MarkNotExist)

\* a bulk call got the same price from two different pages, and no price
\* from a third
C25_Witness ==
    /\ nic.bulk
    /\ nic.pc = "done"
    /\ \E j, k, l \in PagesParsed :
         /\ nic.pages[j] # nic.pages[k]
         /\ ~ResultOfPage(j).price.null
         /\ ResultOfPage(j).price = ResultOfPage(k).price
         /\ ResultOfPage(l).price.null

\* C26: a Provider A call issues at most MAX_ATTEMPTS (10) status-check
\* requests, and, every request being answered, failing or timing out and
\* every timer firing, a call that polls returns.
C26_PollingTerminates ==
    /\ [](pb.polls <= 10 /\ pb.polls <= MAX_ATTEMPTS /\ pb.sleeps <= MAX_ATTEMPTS)
    /\ (pb.pc \in {"polling", "sleeping"}) ~> (pb.pc = "done")

\* the call has returned after its tenth status-check request and tenth wait
C26_Witness ==
    /\ pb.pc = "done"
    /\ pb.polls = MAX_ATTEMPTS
    /\ pb.sleeps = MAX_ATTEMPTS
    /\ pb.attempt = MAX_ATTEMPTS

\* the step in which the response of a status-check request arrives; the
\* response is then pb'.last
PollArrives == pb.pc = "polling" /\ pb' # pb

\* a successful response with items
HasItems(up) == up.kind = "ok" /\ up.results.has /\ up.results.v # <<>>

AnyPending(up) == \E i \in 1..Len(up.results.v) : up.results.v[i].result = "PENDING"

\* C27: a response with a PENDING item that is not the last attempt's makes
\* the call wait and then repeat the same request; the first successful
\* response with items none of which is PENDING ends the polling, its items
\* alone are parsed into the results, and a call that has returned issues no
\* request.
C27_RepollUntilResolved ==
    /\ [][(PollArrives /\ HasItems(pb'.last) /\ AnyPending(pb'.last)
              /\ pb.attempt < MAX_ATTEMPTS - 1) =>
            (pb'.pc = "sleeping" /\ pb'.sleeps = pb.sleeps + 1
                /\ pb'.polls = pb.polls /\ pb'.outcome = pb.outcome)]_vars
    /\ [][(pb.pc = "sleeping" /\ pb' # pb /\ pb.attempt < MAX_ATTEMPTS - 1) =>
            (pb'.pc = "polling" /\ pb'.polls = pb.polls + 1
                /\ pb'.pollReq = pb.pollReq /\ pb'.attempt = pb.attempt + 1)]_vars
    /\ [][(PollArrives /\ HasItems(pb'.last) /\ ~AnyPending(pb'.last)) =>
            /\ pb'.pc = "done"
            /\ pb'.polls = pb.polls
            /\ pb'.sleeps = pb.sleeps
            /\ pb'.outcome.error = Null
            /\ Len(pb'.outcome.results) = Len(pb'.last.results.v)
            /\ \A k \in 1..Len(pb'.last.results.v) :
                 pb'.outcome.results[k] = parsePorkbunResult(pb'.last.results.v[k])]_vars
    /\ [][pb.pc = "done" => pb' = pb]_vars

\* the first response had a resolved and a PENDING item and was waited on; the
\* second had one resolved item, which alone is the result
C27_Witness ==
    /\ pb.pc = "done"
    /\ pb.polls = 2
    /\ pb.sleeps = 1
    /\ ~pb.onlyPending
    /\ ~pb.onlyEmpty
    /\ pb.last.results = Some(<<PbTaken>>)
    /\ pb.outcome.results = <<parsePorkbunResult(PbTaken)>>

\* C28: a status-check request that fails on the network, times out or is
\* answered with a body that is not JSON ends the polling at once: no wait and
\* no request follows, and the outcome is the error with no results, whatever
\* the attempt; the call waits and retries only after a non-success status, a
\* response without items, or one with a PENDING item.
C28_ThrownAttemptEndsPolling ==
    /\ [][(PollArrives /\ pb'.last.kind \in {"throw", "badbody"}) =>
            /\ pb'.pc = "done"
            /\ pb'.polls = pb.polls
            /\ pb'.sleeps = pb.sleeps
            /\ pb'.outcome.results = <<>>
            /\ pb'.outcome.error = pb'.last.err
            /\ pb'.outcome.error \in {NetworkError, TimeoutError, SyntaxError}]_vars
    /\ [][(PollArrives /\ pb'.pc = "sleeping") =>
            \/ pb'.last.kind = "status"
            \/ pb'.last.kind = "ok" /\ ~HasItems(pb'.last)
            \/ HasItems(pb'.last) /\ AnyPending(pb'.last)]_vars
    /\ [][pb.pc = "done" => (pb'.polls = pb.polls /\ pb'.sleeps = pb.sleeps
                               /\ pb'.outcome = pb.outcome)]_vars

\* the second of ten attempts timed out: the call returned the error after
\* two requests and one wait
C28_Witness ==
    /\ pb.pc = "done"
    /\ pb.last.kind = "throw"
    /\ pb.last.err = TimeoutError
    /\ pb.polls = 2
    /\ pb.sleeps = 1
    /\ pb.attempt = 1
    /\ pb.outcome = ProviderSearchResult("porkbun", <<>>, TimeoutError)

\* a Provider B call that ran its secondary phase and returned its results
SecondaryPhaseDone ==
    iw.pc = "done" /\ iw.outcome.error = Null /\ Len(iw.requests) > 0

\* C29 as stated: the secondary phase changes only the available field, and
\* only of results whose prepare item went to the needs-secondary-check
\* bucket; the results the prepare phase classified keep their availability,
\* and every result keeps its domain, price, premium flag and position.
C29_SecondaryOnlyTouchesPending ==
    SecondaryPhaseDone =>
        /\ Len(iw.outcome.results) = Len(iw.prepared)
        /\ Len(iw.prepared) = Len(IwParsedItems)
        /\ \A k \in 1..Len(iw.prepared) :
             /\ iw.outcome.results[k] =
                  [iw.prepared[k] EXCEPT !.available = iw.outcome.results[k].available]
             /\ iw.outcome.results[k].available # iw.prepared[k].available =>
                  NeedsCheck(IwParsedItems[k])

\* a result the prepare phase classified as unavailable, whose domain was not
\* sent to the secondary check, is returned as available
C29_Witness ==
    /\ SecondaryPhaseDone
    /\ \E k \in 1..Len(iw.prepared) :
         /\ IwParsedItems[k].status = Some(STATUS_UNAVAILABLE)
         /\ ~iw.prepared[k].available
         /\ iw.prepared[k].domain \notin Range(iw.pendingDomains)
         /\ iw.outcome.results[k].available

\* the part of C29 that holds: the secondary phase keeps the domain, price,
\* premium flag and position of every result
C29_SecondaryKeepsTheRest ==
    SecondaryPhaseDone =>
        /\ Len(iw.outcome.results) = Len(iw.prepared)
        /\ \A k \in 1..Len(iw.prepared) :
             /\ iw.outcome.results[k].domain = iw.prepared[k].domain
             /\ iw.outcome.results[k].price = iw.prepared[k].price
             /\ iw.outcome.results[k].premium = iw.prepared[k].premium

\* the orders in which the responses to the chunk requests can arrive
ArrivalOrders ==
    {order \in [1..Len(iw.chunks) -> 1..Len(iw.chunks)] :
        \A a, b \in 1..Len(iw.chunks) : a # b => order[a] # order[b]}

RECURSIVE MergedUpTo(_, _)
\* allResults after the first n responses of an arrival order
MergedUpTo(order, n) ==
    IF n = 0 THEN EmptyObject
    ELSE LET before == MergedUpTo(order, n - 1)
             result == iw.checked[order[n]]
         IN IF result.has THEN ObjectAssign(before, result.v) ELSE before

\* the availability of the results had the same responses arrived in the order
AvailabilityIn(order) ==
    LET merged == MergedUpTo(order, Len(iw.chunks))
        final == IF DOMAIN merged # {} THEN ApplyCheck(iw.prepared, merged)
                 ELSE iw.prepared
    IN [k \in 1..Len(final) |-> final[k].available]

\* C30 as stated: with the prepare response and the response to each chunk
\* fixed, the availability of every result is the same for every order in
\* which the responses to the chunk requests arrive.
C30_ArrivalOrderIrrelevant ==
    SecondaryPhaseDone =>
        \A order \in ArrivalOrders :
            AvailabilityIn(order) =
                [k \in 1..Len(iw.outcome.results) |-> iw.outcome.results[k].available]

\* two chunk responses gave one domain an available and an unavailable
\* status, and the result has the status that arrived last
C30_Witness ==
    /\ SecondaryPhaseDone
    /\ Len(iw.chunks) >= 2
    /\ \E a, b \in 1..Len(iw.chunks) :
         /\ iw.checked[a].has
         /\ iw.checked[b].has
         /\ \E k \in 1..Len(iw.prepared) :
              LET d == iw.prepared[k].domain IN
              /\ d \in DOMAIN iw.checked[a].v
              /\ d \in DOMAIN iw.checked[b].v
              /\ IsAvailableStatus(iw.checked[a].v[d])
              /\ ~IsAvailableStatus(iw.checked[b].v[d])
              /\ ~iw.outcome.results[k].available

\* the part of C30 that holds: when no two chunk responses give a status for
\* the same domain, the arrival order makes no difference
C30_DisjointResponsesCommute ==
    (SecondaryPhaseDone
        /\ \A a, b \in 1..Len(iw.chunks) :
             (a # b /\ iw.checked[a].has /\ iw.checked[b].has) =>
                 DOMAIN iw.checked[a].v \cap DOMAIN iw.checked[b].v = {})
    => C30_ArrivalOrderIrrelevant

-----------------------------------------------------------------------------
(* Claims C31..C32 *)

RECURSIVE IsSubSequence(_, _)
\* s is t with some entries left out: same entries, same relative order
IsSubSequence(s, t) ==
    IF s = <<>> THEN TRUE
    ELSE IF t = <<>> THEN FALSE
    ELSE IF Head(s) = Head(t) THEN IsSubSequence(Tail(s), Tail(t))
    ELSE IsSubSequence(s, Tail(t))

\* C31: filterExact and filterDomains change nothing but the result lists: a
\* filtered response has as many provider outcomes as the drivers returned,
\* in the same order, each with the provider id and the error of the outcome
\* it comes from and no other field, and each of its result lists is a
\* sub-sequence of the outcome's list (same relative order, no new and no
\* altered entry).
C31_FiltersOnlyDropResults ==
    (hpc = "responded" /\ FilterApplies) =>
        /\ DOMAIN response = DOMAIN Outcomes
        /\ \A i \in DOMAIN Outcomes :
             /\ DOMAIN response[i] = DOMAIN Outcomes[i]
             /\ [response[i] EXCEPT !.results = <<>>]
                  = [Outcomes[i] EXCEPT !.results = <<>>]
             /\ IsSubSequence(response[i].results, Outcomes[i].results)
             /\ Len(response[i].results) <= Len(Outcomes[i].results)

\* a filtered combined response in which one outcome carries an error and
\* another lost its first result and kept, unaltered and in order, the rest
C31_Witness ==
    /\ hpc = "responded"
    /\ FilterApplies
    /\ Len(response) = 3
    /\ \E i, j \in DOMAIN Outcomes :
         /\ Outcomes[i].error # Null
         /\ response[i].error = Outcomes[i].error
         /\ Len(Outcomes[j].results) >= 2
         /\ response[j].results # <<>>
         /\ response[j].results = Tail(Outcomes[j].results)

\* the caller input, trimmed and lower-cased, ends in ".cl"
EndsInCl(input) == endsWith(toLowerCase(trim(input)), DotCl)

\* the name Provider C looks up for a caller input
Canonical(input) ==
    IF EndsInCl(input) THEN toLowerCase(trim(input))
    ELSE toLowerCase(trim(input)) \o DotCl

RECURSIVE KeptWhere(_, _)
\* the entries of results whose index is in keep, in their order
KeptWhere(results, keep) ==
    IF results = <<>> THEN <<>>
    ELSE KeptWhere(SubSeq(results, 1, Len(results) - 1), keep)
         \o (IF Len(results) \in keep THEN <<results[Len(results)]>> ELSE <<>>)

\* Provider C's outcome and its filtered form in a combined response
NicOutcome == Outcomes[3]
NicResponse == response[3]

\* a combined query with exact=true: Provider C's one result is for the
\* canonical name, and it is kept exactly when the query ends in ".cl"
C32_ExactKeepsOnlySuffixed ==
    (hpc = "responded" /\ req.tool = "search_domains" /\ req.exact
        /\ NicOutcome.results # <<>>) =>
        /\ Len(NicOutcome.results) = 1
        /\ NicOutcome.results[1].domain = Canonical(req.query)
        /\ NicResponse.results # <<>> <=> EndsInCl(req.query)
        /\ NicResponse.results \in {<<>>, NicOutcome.results}

\* a combined bulk query: Provider C has one result per requested domain, in
\* the order of the request, each for the canonical name of its input
BulkResultsAreCanonical ==
    /\ Len(NicOutcome.results) = Len(req.domains)
    /\ \A k \in 1..Len(req.domains) :
         NicOutcome.results[k].domain = Canonical(req.domains[k])

\* C32 as stated: in a combined query with exact=true and in a combined bulk
\* query, a Provider C result is kept if and only if the caller input it
\* answers ends in ".cl" once trimmed and lower-cased; the result for an
\* input lacking the suffix is lost even though the lookup succeeded.
C32_KeptIffInputEndsInCl ==
    /\ C32_ExactKeepsOnlySuffixed
    /\ (hpc = "responded" /\ req.tool = "bulk_search_domains") =>
          /\ BulkResultsAreCanonical
          /\ NicResponse.results =
                KeptWhere(NicOutcome.results,
                          {k \in 1..Len(req.domains) : EndsInCl(req.domains[k])})

\* C32, amended: with exact=true the Provider C result is kept if and only if
\* the query ends in ".cl"; in a combined bulk query the result for an input
\* is kept if and only if the input ends in ".cl" or the request also lists,
\* up to trimming and case, the input with ".cl" appended.
C32_KeptIffCanonicalRequested ==
    /\ C32_ExactKeepsOnlySuffixed
    /\ (hpc = "responded" /\ req.tool = "bulk_search_domains") =>
          /\ BulkResultsAreCanonical
          /\ NicResponse.results =
                KeptWhere(NicOutcome.results,
                    {k \in 1..Len(req.domains) :
                        \/ EndsInCl(req.domains[k])
                        \/ \E m \in 1..Len(req.domains) :
                              toLowerCase(trim(req.domains[m]))
                                = toLowerCase(trim(req.domains[k])) \o DotCl})

\* the combined bulk query for "Foo" and "foo.cl": both lookups succeeded with
\* an available name, and the response keeps both results for foo.cl
C32_Witness ==
    /\ hpc = "responded"
    /\ req.tool = "bulk_search_domains"
    /\ req.domains = <<FooBare, FooCl>>
    /\ Len(NicOutcome.results) = 2
    /\ \A k \in 1..2 : NicOutcome.results[k].available
    /\ NicResponse.results = NicOutcome.results

\* the combined query with exact=true for "Foo": the lookup of foo.cl
\* succeeded with an available name, and the response has no Provider C result
C32_ExactWitness ==
    /\ hpc = "responded"
    /\ req.tool = "search_domains"
    /\ req.exact
    /\ req.query = FooBare
    /\ NicOutcome.error = Null
    /\ Len(NicOutcome.results) = 1
    /\ NicOutcome.results[1].available
    /\ NicResponse.results = <<>>

====
